---- MODULE Spec2Model ----
(***************************************************************************)
(* State-machine model of the snapshot core (src/src/snapshot_ca.py):      *)
(* SnapshotPv (one channel handle) and Snapshot (the channel set and the   *)
(* restore coordinator and the compare stream).  Caller contexts invoke    *)
(* restore_pvs, the loaders, clear_pvs_to_restore, add_pvs, remove_pvs,    *)
(* change_macros and start/stop_continuous_compare; the transport delivers *)
(* connection callbacks, value notifications and put-completion callbacks  *)
(* on its own contexts.  The code takes no lock anywhere, so the handlers  *)
(* that race are cut into steps at the places where another context can    *)
(* observe or change the shared fields.                                    *)
(***************************************************************************)
EXTENDS Integers, Sequences, FiniteSets, TLC

\* Bounds of the model.
NumPvs == 2      \* channels named by the request file
MaxCalls == 2    \* restore_pvs calls in one behaviour
\* Longest outcome list a repeated completion is delivered to.
MaxOutcomes == 3
MaxIndex == 2    \* largest callback index the transport gives to a handle

PvNames == 1..NumPvs

\* The contexts that call into the Snapshot object (the GUI thread and one
\* more thread of the embedding program).
Callers == {"main", "aux"}

\* ---------------------------------------------------------------- values
\* A value is None, a native scalar or a numpy array; kind keeps the shape
\* that numpy.array_equal and numpy.size look at.
None == [kind |-> "none", d |-> <<>>]
Scalar(x) == [kind |-> "scalar", d |-> <<x>>]
Array(s) == [kind |-> "array", d |-> s]

\* ca.element_count(chid) of the channel behind each name: odd names are
\* scalar records, even names are waveforms.
element_count(p) == IF p % 2 = 0 THEN 2 ELSE 1

\* What pv.value yields for a record holding v: a waveform with one element
\* is delivered as a native scalar (comment in internal_cnct_callback).
Present(v) == IF v.kind = "array" /\ Len(v.d) = 1 THEN Scalar(v.d[1]) ELSE v

\* Live values the transport can hold for channel p.
LiveValues(p) ==
    IF element_count(p) > 1
    THEN {Scalar(0), Array(<<0, 1>>)}
    ELSE {Scalar(0), Scalar(1)}

\* Values a save file can hold for channel p (None: bare name or no entry).
FileValues(p) ==
    IF element_count(p) > 1
    THEN {None, Array(<<0>>), Array(<<0, 1>>)}
    ELSE {None, Scalar(0), Scalar(1)}

\* The parsed save files: resolved name -> value.
Records == {r \in [PvNames -> UNION {FileValues(p) : p \in PvNames}] :
                \A p \in PvNames : r[p] \in FileValues(p)}

\* numpy.size(v)
numpy_size(v) == IF v.kind = "array" THEN Len(v.d) ELSE 1

\* numpy.array_equal(a, b): same shape and same elements.
array_equal(a, b) == a.kind = b.kind /\ a.d = b.d

\* Truth of the Python expression (a == b) for the values above; a numpy
\* array of one element compared with a scalar broadcasts to one boolean.
py_eq(a, b) ==
    IF a.kind = "none" \/ b.kind = "none" THEN a = b
    ELSE IF a.kind = b.kind THEN a.d = b.d
    ELSE Len(a.d) = 1 /\ Len(b.d) = 1 /\ a.d[1] = b.d[1]

\* The element numpy.asarray([None]) holds.
NullElement == -1

\* The normalisation save_pv and continuous_compare apply to a live value of
\* an array channel: empty -> None, anything of size one -> boxed
\* (numpy.size(None) is 1, so None is boxed too).
Normalize(isArr, v) ==
    IF ~isArr THEN v
    ELSE IF numpy_size(v) = 0 THEN None
    ELSE IF numpy_size(v) = 1 /\ v.kind = "none" THEN Array(<<NullElement>>)
    ELSE IF numpy_size(v) = 1 /\ v.kind = "scalar" THEN Array(v.d)
    ELSE v

\* ------------------------------------------------------------ save files
\* Further Python values a save file can hold: a string (its characters),
\* a list (what ndarray.tolist() and json.loads give) and the metadata
\* dict (its items); Raised stands for an expression that raised.
Str(s) == [kind |-> "string", d |-> s]
List(s) == [kind |-> "list", d |-> s]
Dict(s) == [kind |-> "dict", d |-> s]
Raised == [kind |-> "raised", d |-> <<>>]

\* v.tolist(): only an ndarray has it.
tolist(v) == IF v.kind = "array" THEN List(v.d) ELSE Raised

\* JSON texts: what json.dumps writes for a value, and a text that is no
\* JSON.  An ndarray is not serialisable.
Json(t, d) == [json |-> t, d |-> d]
Garbage == Json("garbage", <<>>)
NoText == Json("none", <<>>)
json_dumps(v) ==
    CASE v.kind = "none" -> Json("null", <<>>)
      [] v.kind = "scalar" -> Json("number", v.d)
      [] v.kind = "string" -> Json("string", v.d)
      [] v.kind = "list" -> Json("list", v.d)
      [] v.kind = "dict" -> Json("object", v.d)
      [] OTHER -> Json("raised", <<>>)

\* json.loads(text); Raised is JSONDecodeError.
json_loads(t) ==
    CASE t.json = "null" -> None
      [] t.json = "number" -> Scalar(t.d[1])
      [] t.json = "string" -> Str(t.d)
      [] t.json = "list" -> List(t.d)
      [] t.json = "object" -> Dict(t.d)
      [] OTHER -> Raised

\* The lines of a save file: a line that starts with "#" (followed by
\* text), a line "name,text", a line that is a bare name, and a blank line.
NoName == <<"", 0>>
HashLine(t) == [kind |-> "hash", name |-> NoName, text |-> t]
EntryLine(n, t) == [kind |-> "entry", name |-> n, text |-> t]
BareLine(n) == [kind |-> "bare", name |-> n, text |-> NoText]
BlankLine == [kind |-> "blank", name |-> NoName, text |-> NoText]

\* The errors parse_from_save_file collects.
MetaError == [what |-> "Meta data could not be decoded", name |-> NoName]
ValueError(n) == [what |-> "Value cannot be decoded", name |-> n]
NoMetaError == [what |-> "No meta data in the file", name |-> NoName]

\* d[k] = v of a Python dict kept as a function.
DictSet(f, k, v) == [n \in DOMAIN f \cup {k} |-> IF n = k THEN v ELSE f[n]]

\* The empty dict.
EmptyDict == [n \in {} |-> None]

\* The same turn without the conversion of a list to an array.
ParseLineKeepsList(acc, line) ==
    IF line.kind = "hash" /\ ~acc.meta_loaded
    THEN IF json_loads(line.text) = Raised
         THEN [acc EXCEPT !.err = Append(@, MetaError), !.meta_loaded = TRUE]
         ELSE [acc EXCEPT !.meta_data = json_loads(line.text),
                          !.meta_loaded = TRUE]
    ELSE IF line.kind = "entry"
    THEN LET pv_value == json_loads(line.text)
         IN IF pv_value = Raised
            THEN [acc EXCEPT !.saved_pvs = DictSet(@, line.name, None),
                             !.err = Append(@, ValueError(line.name))]
            ELSE [acc EXCEPT !.saved_pvs = DictSet(@, line.name, pv_value)]
    ELSE IF line.kind = "bare"
    THEN [acc EXCEPT !.saved_pvs = DictSet(@, line.name, None)]
    ELSE acc

\* The same turn with an entry whose value fails to decode left out of the
\* result.
ParseLineDropsBad(acc, line) ==
    IF line.kind = "hash" /\ ~acc.meta_loaded
    THEN IF json_loads(line.text) = Raised
         THEN [acc EXCEPT !.err = Append(@, MetaError), !.meta_loaded = TRUE]
         ELSE [acc EXCEPT !.meta_data = json_loads(line.text),
                          !.meta_loaded = TRUE]
    ELSE IF line.kind = "entry"
    THEN LET pv_value == json_loads(line.text)
         IN IF pv_value = Raised
            THEN [acc EXCEPT !.err = Append(@, ValueError(line.name))]
            ELSE [acc EXCEPT !.saved_pvs =
                     DictSet(@, line.name,
                             IF pv_value.kind = "list" THEN Array(pv_value.d)
                                                       ELSE pv_value)]
    ELSE IF line.kind = "bare"
    THEN [acc EXCEPT !.saved_pvs = DictSet(@, line.name, None)]
    ELSE acc

\* parse_from_save_file, one turn of the loop over the lines (lines
\* 599-630): the first "#" line met is the metadata, every later one and
\* every blank line is skipped, every other line is an entry.
ParseLine(acc, line) ==
    IF line.kind = "hash" /\ ~acc.meta_loaded
    THEN IF json_loads(line.text) = Raised
         THEN [acc EXCEPT !.err = Append(@, MetaError), !.meta_loaded = TRUE]
         ELSE [acc EXCEPT !.meta_data = json_loads(line.text),
                          !.meta_loaded = TRUE]
    ELSE IF line.kind = "entry"
    THEN LET pv_value == json_loads(line.text)
         IN IF pv_value = Raised
            THEN [acc EXCEPT !.saved_pvs = DictSet(@, line.name, None),
                             !.err = Append(@, ValueError(line.name))]
            ELSE [acc EXCEPT !.saved_pvs =
                     DictSet(@, line.name,
                             IF pv_value.kind = "list" THEN Array(pv_value.d)
                                                       ELSE pv_value)]
    ELSE IF line.kind = "bare"
    THEN [acc EXCEPT !.saved_pvs = DictSet(@, line.name, None)]
    ELSE acc

RECURSIVE ParseFrom(_, _, _)
ParseFrom(acc, lines, i) ==
    IF i > Len(lines) THEN acc
    ELSE ParseFrom(ParseLine(acc, lines[i]), lines, i + 1)

\* parse_from_save_file(save_file_path) on a file with these lines:
\* (saved_pvs, meta_data, err).
parse_from_save_file(lines) ==
    LET acc == ParseFrom([saved_pvs |-> EmptyDict, meta_data |-> Dict(<<>>),
                          err |-> <<>>, meta_loaded |-> FALSE], lines, 1)
    IN [saved_pvs |-> acc.saved_pvs,
        meta_data |-> acc.meta_data,
        err |-> IF acc.meta_loaded THEN acc.err ELSE <<NoMetaError>> \o acc.err]

\* replace_metadata(save_file_path, metadata): the lines written back.  An
\* empty file has no lines[0]: IndexError is raised before the file is
\* opened for writing, and the file stays as it is.
replace_metadata(lines, metadata) ==
    IF lines = <<>> THEN lines
    ELSE IF lines[1].kind = "hash"
    THEN <<HashLine(json_dumps(metadata))>> \o SubSeq(lines, 2, Len(lines))
    ELSE <<HashLine(json_dumps(metadata))>> \o lines

\* ---------------------------------------------------------------- names
\* A channel name is a prefix and a number.  The request file names one
\* channel per line: odd lines are plain names ("A:1"), even lines start
\* with the macro token ("$(M):1") and share the number of the line before,
\* so that M = "A" resolves line 2 to the name of line 1.
MacroToken == "$(M)"
pvname_raw(p) == IF p % 2 = 0 THEN <<MacroToken, p - 1>> ELSE <<"A", p>>

\* Python values of the macros argument: None, or a dict, kept as its set of
\* (key, value) pairs.
MacrosNone == [none |-> TRUE, map |-> {}]
MacrosDict(m) == [none |-> FALSE, map |-> m]
MacrosValues == {MacrosNone, MacrosDict({}),
                 MacrosDict({<<"M", "A">>}), MacrosDict({<<"M", "B">>})}

\* Truth value of a macros argument (None and the empty dict are false).
Truthy(m) == m.map # {}

\* macros_substitution(string, macros): every "$(key)" replaced by its value.
macros_substitution(name, m) ==
    IF \E kv \in m.map : name[1] = "$(" \o kv[1] \o ")"
    THEN <<(CHOOSE kv \in m.map : name[1] = "$(" \o kv[1] \o ")")[2], name[2]>>
    ELSE name

\* The test '"$" in pv_ref.pvname_raw' of change_macros.
HasMacro(p) == pvname_raw(p)[1] = MacroToken

\* ----------------------------------------------------------------- state
VARIABLES
    \* SnapshotPv fields and the transport's view of each channel
    connected, cnct_lost, is_array, write_access, value, value_to_restore,
    cnct_pc,
    \* Snapshot fields
    restore_values_loaded, restore_started, all_connected, restore_callback,
    current_restore_forced, restored_pvs_list,
    \* contexts: callers inside restore_pvs, put callbacks, puts in flight
    th, tcb, putq,
    \* fired[c]: invocations of caller c's completion callback since c last
    \* registered it; ncalls: restore_pvs calls made so far
    fired, ncalls,
    \* the channel set: the request-file lines that have a handle in self.pvs,
    \* self.macros, each handle's resolved name and captured value
    pvs, macros, pvname, saved_value,
    \* the compare stream: Snapshot.compare_state and compare_callback, each
    \* handle's compare_callback_id and last_compare, the callbacks the
    \* transport holds for each handle (PV.callbacks)
    compare_state, compare_callback, compare_callback_id, last_compare, callbacks,
    \* ntf[p]: the value notification the transport is running for channel p;
    \* emitted: the compare events delivered to listeners by the latest step
    ntf, emitted,
    \* the transport's read permission on each channel; the save file on
    \* disk (its lines), what the last parse_from_save_file returned and the
    \* status map the last save_pvs returned
    read_access, save_file, parsed, pvs_status,
    \* Snapshot.restore_blocking_done
    restore_blocking_done

pvVars == <<connected, cnct_lost, is_array, write_access, value,
            value_to_restore, cnct_pc>>
coordVars == <<restore_values_loaded, restore_started, all_connected,
               restore_callback, current_restore_forced, restored_pvs_list>>
ctxVars == <<th, tcb, putq>>
ghostVars == <<fired, ncalls>>
setVars == <<pvs, macros, pvname, saved_value>>
cmpVars == <<compare_state, compare_callback, compare_callback_id, last_compare,
             callbacks, ntf, emitted>>
fileVars == <<read_access, save_file, parsed, pvs_status>>
vars == <<pvVars, coordVars, ctxVars, ghostVars, setVars, cmpVars, fileVars,
          restore_blocking_done>>

\* restore_callback = None.  A registered callback is the callable handed to
\* one restore_pvs call: it is known by the caller that passed it, by the
\* force flag of that call and by what it is (fn): a callback of the
\* caller's, or set_restore_blocking_done.
NoCallback == [caller |-> "None", force |-> FALSE, fn |-> "None"]

\* A caller context: where it stands in restore_pvs (pc, idx), the arguments
\* of the call it is in (file: whether save_file_path names a save file;
\* callback: "callback", "None" or "set_restore_blocking_done") and what its
\* last restore_pvs call returned.
IdleThread(ret) == [pc |-> "idle", force |-> FALSE, selected |-> {},
                    file |-> FALSE, idx |-> 0, ret |-> ret,
                    callback |-> "callback"]

\* A put-callback context of the transport: where it stands in
\* check_restore_complete and whether the transport applied the write.
IdleCallback == [pc |-> "idle", applied |-> TRUE]

\* compare_callback = None; the listeners a caller can pass.
NoListener == "None"
Listeners == {"L1", "L2"}

\* No value notification is running for the channel.  A running one holds
\* the indices of the callbacks still to run, the listener it has loaded and
\* whether it has raised.
IdleNotification == [pc |-> "idle", todo |-> {}, to |-> NoListener,
                     raised |-> FALSE, value |-> None]

\* Read access ra on the channels, the save file f on disk, nothing parsed
\* and nothing saved yet.
FilesWith(ra, f) ==
    /\ read_access = ra
    /\ save_file = f
    /\ parsed = <<>>
    /\ pvs_status = <<>>
    /\ restore_blocking_done = FALSE

\* The state in which channels conn are connected (their connection
\* callbacks have returned), the others never were, and the record rec is
\* loaded (<<>>: nothing loaded yet).
ChannelsWith(wa, live, conn, rec) ==
    /\ connected = [p \in PvNames |-> p \in conn]
    /\ cnct_lost = [p \in PvNames |-> p \notin conn]
    /\ is_array = [p \in PvNames |-> p \in conn /\ element_count(p) > 1]
    /\ write_access = wa
    /\ value = live
    /\ value_to_restore = [p \in PvNames |-> IF rec = <<>> THEN None ELSE rec[1][p]]
    /\ cnct_pc = [p \in PvNames |-> "idle"]
    /\ restore_values_loaded = (rec # <<>>)
    /\ restore_started = FALSE
    /\ all_connected = (conn = PvNames)
    /\ restore_callback = NoCallback
    /\ current_restore_forced = FALSE
    /\ restored_pvs_list = <<>>
    /\ th = [c \in Callers |-> IdleThread("none")]
    /\ tcb = [p \in PvNames |-> IdleCallback]
    /\ putq = [p \in PvNames |-> <<>>]
    /\ fired = [c \in Callers |-> 0]
    /\ ncalls = 0
    /\ saved_value = [p \in PvNames |-> None]
    /\ compare_state = FALSE
    /\ compare_callback = NoListener
    /\ compare_callback_id = [p \in PvNames |-> 0]
    /\ last_compare = [p \in PvNames |-> "None"]
    /\ callbacks = [p \in PvNames |-> {}]
    /\ ntf = [p \in PvNames |-> IdleNotification]
    /\ emitted = <<>>

\* The same, for a set made without macros that holds a handle for every
\* line of the request file.
StateWith(wa, live, conn, rec) ==
    /\ ChannelsWith(wa, live, conn, rec)
    /\ FilesWith([p \in PvNames |-> TRUE], <<>>)
    /\ pvs = PvNames
    /\ macros = MacrosNone
    /\ pvname = [p \in PvNames |-> pvname_raw(p)]

Lives == {v \in [PvNames -> UNION {LiveValues(p) : p \in PvNames}] :
             \A p \in PvNames : v[p] \in LiveValues(p)}

\* Write access granted on every channel; the live values of a machine whose
\* scalar records hold 0 and whose waveforms hold <<0, 1>>.
AllTrue == [p \in PvNames |-> TRUE]
LiveEq == [p \in PvNames |-> IF element_count(p) > 1 THEN Array(<<0, 1>>)
                                                      ELSE Scalar(0)]

\* State after Snapshot.__init__ on a request file naming PvNames: every
\* channel created, none connected yet, nothing loaded.
Init == StateWith(AllTrue, LiveEq, {}, <<>>)

\* ------------------------------------------------------- compare stream
\* SnapshotPv.compare(value) of a handle with this is_array and desired value.
compare_with(isArr, v, desired) ==
    IF isArr THEN array_equal(v, desired) ELSE py_eq(v, desired)

\* A Python bool, or None, as last_compare and the events carry it.
Bool(b) == IF b THEN "True" ELSE "False"

\* The fields of the handles that the compare stream reads.
Handles == [connected |-> connected, cnct_lost |-> cnct_lost,
            is_array |-> is_array, value |-> value, pvname |-> pvname]

\* The fields of the compare stream, and the events an operation has
\* delivered so far.
Stream == [cb |-> compare_callback, ids |-> compare_callback_id,
           cbs |-> callbacks, lc |-> last_compare, state |-> compare_state,
           ev |-> <<>>]

\* continuous_compare, lines 453-469, for handle p of h and the value v:
\* the value as the event carries it and the new last_compare.
continuous_compare(h, p, v, desired, loaded) ==
    LET nv == Normalize(h.is_array[p], v)
    IN IF ~loaded THEN [value |-> nv, lc |-> "None"]
       ELSE IF h.cnct_lost[p] THEN [value |-> None, lc |-> "None"]
       ELSE [value |-> nv, lc |-> Bool(compare_with(h.is_array[p], nv, desired[p]))]

\* The keyword arguments of one compare_callback call (lines 472-476 and
\* 425-429), and the listener called.
Event(to, h, p, v, desired, lc, loaded) ==
    [to |-> to, pv_name |-> h.pvname[p], pv_value |-> v, pv_saved |-> desired[p],
     pv_compare |-> lc, pv_cnct_sts |-> ~h.cnct_lost[p], saved_sts |-> loaded]

\* PV.add_callback: the index the transport gives to a new callback.
add_callback(cbs) ==
    IF cbs = {} THEN 1 ELSE 1 + (CHOOSE i \in cbs : \A j \in cbs : j <= i)

\* stop_continuous_compare over the handles in names, lines 433-440.
stop_continuous_compare(st, names) ==
    [st EXCEPT !.cb = NoListener,
               !.cbs = [p \in PvNames |->
                          IF p \in names /\ st.ids[p] # 0
                          THEN st.cbs[p] \ {st.ids[p]} ELSE st.cbs[p]],
               !.state = FALSE]

\* An iteration that subscribes and tells the listener only about
\* connected channels.
StartOneConnectedOnly(st, h, p, desired, loaded) ==
    LET id == add_callback(st.cbs[p])
        r == continuous_compare(h, p, h.value[p], desired, loaded)
    IN [st EXCEPT
          !.ids[p] = id,
          !.cbs[p] = @ \cup {id},
          !.lc[p] = IF h.connected[p] THEN r.lc ELSE @,
          !.ev = IF st.cb # NoListener /\ h.connected[p]
                 THEN Append(@, Event(st.cb, h, p, r.value, desired, r.lc, loaded))
                 ELSE @]

\* One iteration of the loop of start_continuous_compare, lines 418-430.
StartOne(st, h, p, desired, loaded) ==
    LET id == add_callback(st.cbs[p])
        r == continuous_compare(h, p, h.value[p], desired, loaded)
    IN [st EXCEPT
          !.ids[p] = id,
          !.cbs[p] = @ \cup {id},
          !.lc[p] = IF h.connected[p] THEN r.lc ELSE @,
          !.ev = IF st.cb = NoListener THEN @
                 ELSE IF h.connected[p]
                 THEN Append(@, Event(st.cb, h, p, r.value, desired, r.lc, loaded))
                 ELSE Append(@, Event(st.cb, h, p, None, desired, "None", loaded))]

\* The loop of start_continuous_compare from line i of the request file on.
RECURSIVE StartFrom(_, _, _, _, _, _)
StartFrom(st, h, i, names, desired, loaded) ==
    IF i > NumPvs THEN st
    ELSE StartFrom(IF i \in names THEN StartOne(st, h, i, desired, loaded) ELSE st,
                   h, i + 1, names, desired, loaded)

\* start_continuous_compare(callback) without a save file, lines 410 and
\* 417-431.
start_continuous_compare(st, h, cb, names, desired, loaded) ==
    [StartFrom([st EXCEPT !.cb = cb], h, 1, names, desired, loaded)
        EXCEPT !.state = TRUE]

\* The stream around a bulk change of the desired values (lines 297-301 and
\* 309-311, 315-318 and 326-328): stopped before and started again after
\* when it is running.
Restarted(st, h, names, desired, loaded) ==
    IF st.state
    THEN start_continuous_compare(stop_continuous_compare(st, names), h,
                                  st.cb, names, desired, loaded)
    ELSE st

\* The stream fields take the values of st.
SetStream(st) ==
    /\ compare_callback' = st.cb
    /\ compare_callback_id' = st.ids
    /\ callbacks' = st.cbs
    /\ last_compare' = st.lc
    /\ compare_state' = st.state
    /\ emitted' = st.ev

\* ---------------------------------------------------- connection callbacks
\* check_pvs_connected_status(pvs)
check_pvs_connected_status(names) == \A p \in names : ~cnct_lost[p]

\* get_not_connected_pvs_names(selected): nothing while all_connected is
\* set, else the handles whose transport flag is down, of the selection
\* when it is not empty.
get_not_connected_pvs_names(selected) ==
    IF all_connected THEN {}
    ELSE {p \in pvs : ~connected[p] /\ (p \in selected \/ selected = {})}

\* remove_pvs has popped the handle of p from self.pvs and has not yet
\* disconnected it (between lines 234 and 235): the transport still holds the
\* handle and its callbacks.
Held(p) == \E c \in Callers : th[c].pc = "disconnect" /\ p \in th[c].selected

\* internal_cnct_callback, first part: is_array and cnct_lost are set before
\* the user callbacks run and before the transport updates connected.
CnctCallbackBegin(p, conn) ==
    /\ p \in pvs \/ Held(p)
    /\ cnct_pc[p] = "idle"
    /\ ntf[p].pc = "idle"
    /\ conn # connected[p]
    /\ is_array' = [is_array EXCEPT ![p] = element_count(p) > 1]
    /\ cnct_lost' = [cnct_lost EXCEPT ![p] = ~conn]
    /\ cnct_pc' = [cnct_pc EXCEPT ![p] = "callback"]
    /\ UNCHANGED <<connected, write_access, value, value_to_restore>>
    /\ UNCHANGED <<coordVars, ctxVars, ghostVars, setVars>>
    /\ emitted' = <<>>
    /\ UNCHANGED <<compare_state, compare_callback, compare_callback_id,
                   last_compare, callbacks, ntf>>
    /\ UNCHANGED <<fileVars, restore_blocking_done>>

\* The end of internal_cnct_callback and of the transport's connection
\* handling: on a lost connection run_callbacks() runs the callbacks the
\* handle has, then the transport updates connected.
CnctCallbackReturn(p) ==
    /\ connected' = [connected EXCEPT ![p] = ~cnct_lost[p]]
    /\ cnct_pc' = [cnct_pc EXCEPT ![p] = "idle"]
    /\ ntf' = IF cnct_lost[p] /\ callbacks[p] # {}
              THEN [ntf EXCEPT ![p] = [pc |-> "run", todo |-> callbacks[p],
                                       to |-> NoListener, raised |-> FALSE,
                                       value |-> value[p]]]
              ELSE ntf
    /\ emitted' = <<>>
    /\ UNCHANGED <<cnct_lost, is_array, write_access, value, value_to_restore>>
    /\ UNCHANGED <<restore_values_loaded, restore_started, restore_callback,
                   current_restore_forced, restored_pvs_list>>
    /\ UNCHANGED <<ctxVars, ghostVars, setVars>>
    /\ UNCHANGED <<compare_state, compare_callback, compare_callback_id,
                   last_compare, callbacks>>

\* internal_cnct_callback, second part: cnct_callback is
\* update_all_connected_status.  A lost connection stores False and a
\* connection found while all_connected is set stores nothing; otherwise
\* check_pvs_connected_status() runs and its result is stored by a later
\* bytecode (CnctCallbackStore).
CnctCallbackEnd(p) ==
    /\ cnct_pc[p] = "callback"
    /\ IF p \in pvs /\ cnct_lost[p]
       THEN all_connected' = FALSE /\ CnctCallbackReturn(p)
       ELSE IF p \in pvs /\ all_connected
       THEN UNCHANGED all_connected /\ CnctCallbackReturn(p)
       ELSE /\ cnct_pc' = [cnct_pc EXCEPT ![p] =
                              IF check_pvs_connected_status(pvs)
                              THEN "store_true" ELSE "store_false"]
            /\ emitted' = <<>>
            /\ UNCHANGED <<connected, cnct_lost, is_array, write_access, value,
                           value_to_restore>>
            /\ UNCHANGED <<coordVars, ctxVars, ghostVars, setVars>>
            /\ UNCHANGED <<compare_state, compare_callback, compare_callback_id,
                           last_compare, callbacks, ntf>>
    /\ UNCHANGED <<fileVars, restore_blocking_done>>

\* update_all_connected_status, line 492: the result of the recheck is
\* stored in all_connected.
CnctCallbackStore(p) ==
    /\ cnct_pc[p] \in {"store_true", "store_false"}
    /\ all_connected' = (cnct_pc[p] = "store_true")
    /\ CnctCallbackReturn(p)
    /\ UNCHANGED <<fileVars, restore_blocking_done>>

\* -------------------------------------------------- value notifications
\* The transport delivers a new value of channel p: pv.value changes and
\* the callbacks the handle has at that moment are run one after another.
NotifyBegin(p, v) ==
    /\ p \in pvs \/ Held(p)
    /\ connected[p]
    /\ cnct_pc[p] = "idle"
    /\ ntf[p].pc = "idle"
    /\ v \in LiveValues(p)
    /\ v # value[p]
    /\ value' = [value EXCEPT ![p] = v]
    /\ ntf' = [ntf EXCEPT ![p] =
                 IF callbacks[p] = {} THEN IdleNotification
                 ELSE [pc |-> "run", todo |-> callbacks[p], to |-> NoListener,
                       raised |-> FALSE, value |-> v]]
    /\ emitted' = <<>>
    /\ UNCHANGED <<connected, cnct_lost, is_array, write_access,
                   value_to_restore, cnct_pc>>
    /\ UNCHANGED <<coordVars, ctxVars, ghostVars, setVars>>
    /\ UNCHANGED <<compare_state, compare_callback, compare_callback_id,
                   last_compare, callbacks>>
    /\ UNCHANGED <<fileVars, restore_blocking_done>>

\* The notification of p after one callback: the next one, or none.
AfterCallback(n) ==
    IF n.todo = {} THEN IdleNotification
    ELSE [n EXCEPT !.pc = "run", !.to = NoListener]

\* run_callbacks takes the next callback; one the handle still has is
\* continuous_compare, which runs up to its test of self.compare_callback
\* (lines 446-471).  For a name self.pvs no longer holds, pv_ref is None and
\* `pv_ref.is_array` (line 453) raises, which ends the notification.
NotifyRun(p) ==
    /\ ntf[p].pc = "run"
    /\ LET i == CHOOSE j \in ntf[p].todo : \A k \in ntf[p].todo : j <= k
           rest == [ntf[p] EXCEPT !.todo = @ \ {i}]
           r == continuous_compare(Handles, p, ntf[p].value, value_to_restore,
                                   restore_values_loaded)
       IN IF i \notin callbacks[p]
          THEN /\ ntf' = [ntf EXCEPT ![p] = AfterCallback(rest)]
               /\ UNCHANGED last_compare
          ELSE IF p \notin pvs
          THEN /\ ntf' = [ntf EXCEPT ![p] = [IdleNotification EXCEPT !.raised = TRUE]]
               /\ UNCHANGED last_compare
          ELSE /\ last_compare' = [last_compare EXCEPT ![p] = r.lc]
               /\ ntf' = [ntf EXCEPT ![p] =
                            IF compare_callback = NoListener
                            THEN AfterCallback([rest EXCEPT !.value = r.value])
                            ELSE [rest EXCEPT !.pc = "load", !.value = r.value]]
    /\ emitted' = <<>>
    /\ UNCHANGED <<pvVars, coordVars, ctxVars, ghostVars, setVars>>
    /\ UNCHANGED <<compare_state, compare_callback, compare_callback_id, callbacks>>
    /\ UNCHANGED <<fileVars, restore_blocking_done>>

\* continuous_compare, line 472: self.compare_callback is loaded to be
\* called; calling None raises and ends the notification.
NotifyLoad(p) ==
    /\ ntf[p].pc = "load"
    /\ ntf' = [ntf EXCEPT ![p] =
                 IF compare_callback = NoListener
                 THEN [IdleNotification EXCEPT !.raised = TRUE]
                 ELSE [ntf[p] EXCEPT !.pc = "call", !.to = compare_callback]]
    /\ emitted' = <<>>
    /\ UNCHANGED <<pvVars, coordVars, ctxVars, ghostVars, setVars>>
    /\ UNCHANGED <<compare_state, compare_callback, compare_callback_id,
                   last_compare, callbacks>>
    /\ UNCHANGED <<fileVars, restore_blocking_done>>

\* continuous_compare, lines 472-476: the listener is called with the
\* fields as they are now; the listener may call stop_continuous_compare
\* before it returns.
NotifyCall(p, stops) ==
    /\ ntf[p].pc = "call"
    /\ LET e == Event(ntf[p].to, Handles, p, ntf[p].value, value_to_restore,
                      last_compare[p], restore_values_loaded)
           st == [Stream EXCEPT !.ev = <<e>>]
       IN SetStream(IF stops THEN stop_continuous_compare(st, pvs) ELSE st)
    /\ ntf' = [ntf EXCEPT ![p] = AfterCallback(ntf[p])]
    /\ UNCHANGED <<pvVars, coordVars, ctxVars, ghostVars, setVars>>
    /\ UNCHANGED <<fileVars, restore_blocking_done>>

\* ------------------------------------------------------ desired values
\* The name SnapshotPv.__init__ resolves line p of the request file to
\* (lines 53-54), which is also the key prepare_pvs_to_restore_from_list
\* computes for a raw name (lines 285-295).
Resolved(p, m) ==
    IF Truthy(m) THEN macros_substitution(pvname_raw(p), m) ELSE pvname_raw(p)

\* saved_pvs.get(name) of prepare_pvs_to_restore_from_list: saved_pvs_raw is
\* keyed by request line, and of two raw names that resolve to the same
\* name the later one stays in the dict.
SavedPvsGet(saved_pvs_raw, m, name) ==
    LET ks == {k \in DOMAIN saved_pvs_raw : Resolved(k, m) = name}
    IN IF ks = {} THEN None
       ELSE saved_pvs_raw[CHOOSE k \in ks : \A j \in ks : j <= k]

\* The same loop with a set_restore_parameters that leaves the desired value
\* of a channel the record omits as it is.
RestoreParametersKeepOmitted(names, nm, old, saved_pvs_raw, m) ==
    [p \in PvNames |->
        IF p \in names /\ \E k \in DOMAIN saved_pvs_raw : Resolved(k, m) = nm[p]
        THEN SavedPvsGet(saved_pvs_raw, m, nm[p])
        ELSE old[p]]

\* The loop of set_restore_parameters over the handles in names (lines
\* 303-305), after the substitution with self.macros.
RestoreParameters(names, nm, old, saved_pvs_raw, m) ==
    [p \in PvNames |-> IF p \in names THEN SavedPvsGet(saved_pvs_raw, m, nm[p])
                                      ELSE old[p]]

\* set_restore_parameters over every channel of the set.
set_restore_parameters(saved_pvs) ==
    RestoreParameters(pvs, pvname, value_to_restore, saved_pvs, macros)

\* clear_restore_parameters over every channel of the set.
clear_restore_parameters ==
    [p \in PvNames |-> IF p \in pvs THEN None ELSE value_to_restore[p]]

\* prepare_pvs_to_restore_from_list / _from_file called by an idle caller.
PreparePvsToRestore(c, saved_pvs) ==
    /\ th[c].pc = "idle"
    /\ value_to_restore' = set_restore_parameters(saved_pvs)
    /\ restore_values_loaded' = TRUE
    /\ SetStream(Restarted(Stream, Handles, pvs,
                           set_restore_parameters(saved_pvs), TRUE))
    /\ UNCHANGED <<connected, cnct_lost, is_array, write_access, value, cnct_pc>>
    /\ UNCHANGED <<restore_started, all_connected, restore_callback,
                   current_restore_forced, restored_pvs_list>>
    /\ UNCHANGED <<ctxVars, ghostVars, setVars, ntf>>
    /\ UNCHANGED <<fileVars, restore_blocking_done>>

\* prepare_pvs_to_restore_from_list called by an idle caller with a list
\* whose entry for the channel bad has no 'pv_value': the running stream is
\* stopped and compare_state set again (lines 297-301), the channels before
\* bad take their values, set_restore_parameters raises at bad (line 144)
\* and the exception leaves the method.
PreparePvsToRestoreFails(c, saved_pvs, bad) ==
    /\ th[c].pc = "idle"
    /\ bad \in pvs
    /\ value_to_restore' = RestoreParameters({p \in pvs : p < bad}, pvname,
                                             value_to_restore, saved_pvs, macros)
    /\ SetStream(IF compare_state
                 THEN [stop_continuous_compare(Stream, pvs) EXCEPT !.state = TRUE]
                 ELSE Stream)
    /\ th' = [th EXCEPT ![c].ret = "error"]
    /\ UNCHANGED <<connected, cnct_lost, is_array, write_access, value, cnct_pc>>
    /\ UNCHANGED <<coordVars, tcb, putq, ghostVars, setVars, ntf>>
    /\ UNCHANGED <<fileVars, restore_blocking_done>>

\* clear_pvs_to_restore called by an idle caller.
ClearPvsToRestore(c) ==
    /\ th[c].pc = "idle"
    /\ value_to_restore' = clear_restore_parameters
    /\ restore_values_loaded' = FALSE
    /\ SetStream(Restarted(Stream, Handles, pvs, clear_restore_parameters, FALSE))
    /\ UNCHANGED <<connected, cnct_lost, is_array, write_access, value, cnct_pc>>
    /\ UNCHANGED <<restore_started, all_connected, restore_callback,
                   current_restore_forced, restored_pvs_list>>
    /\ UNCHANGED <<ctxVars, ghostVars, setVars, ntf>>
    /\ UNCHANGED <<fileVars, restore_blocking_done>>

\* ------------------------------------------------------ the channel set
\* f with the value v at every line of lines.
ResetAt(f, lines, v) == [p \in PvNames |-> IF p \in lines THEN v ELSE f[p]]

\* The loop of add_pvs from line i on: a handle is made for every line of
\* lines, and kept unless the set has a handle of the same resolved name.
RECURSIVE AddFrom(_, _, _, _)
AddFrom(cur, i, lines, m) ==
    IF i > NumPvs THEN cur
    ELSE AddFrom(IF i \in lines
                    /\ ~\E q \in cur.pvs : cur.pvname[q] = Resolved(i, m)
                 THEN [pvs |-> cur.pvs \cup {i},
                       pvname |-> [cur.pvname EXCEPT ![i] = Resolved(i, m)]]
                 ELSE cur,
                 i + 1, lines, m)

\* An add_pvs that keeps every handle it makes, whatever names the set holds.
add_pvs_all(names, nm, lines, m) ==
    [pvs |-> names \cup lines,
     pvname |-> [p \in PvNames |-> IF p \in lines THEN Resolved(p, m) ELSE nm[p]]]

\* add_pvs(pv_list_raw) on the set names with the resolved names nm.
add_pvs(names, nm, lines, m) == AddFrom([pvs |-> names, pvname |-> nm], 1, lines, m)

\* No connection callback and no value notification is running for the
\* handles of lines.
NoneRunning(lines) == \A p \in lines : cnct_pc[p] = "idle" /\ ntf[p].pc = "idle"

\* The fields of the handles at lines are those SnapshotPv.__init__ gives
\* (lines 48-66) and the transport holds no callback for them; the set
\* becomes now.pvs with the names now.pvname.
NewHandles(lines, now) ==
    /\ pvs' = now.pvs
    /\ pvname' = [p \in PvNames |-> IF p \in now.pvs THEN now.pvname[p]
                                                    ELSE pvname_raw(p)]
    /\ connected' = ResetAt(connected, lines, FALSE)
    /\ cnct_lost' = ResetAt(cnct_lost, lines, TRUE)
    /\ is_array' = ResetAt(is_array, lines, FALSE)
    /\ saved_value' = ResetAt(saved_value, lines, None)
    /\ UNCHANGED <<write_access, value, cnct_pc, ntf>>

\* The stream fields of the handles at lines as SnapshotPv.__init__ gives
\* them.
FreshStream(st, lines) ==
    [st EXCEPT !.ids = ResetAt(st.ids, lines, 0),
               !.cbs = ResetAt(st.cbs, lines, {}),
               !.lc = ResetAt(st.lc, lines, "None")]

\* add_pvs(pv_list_raw) called by an idle caller with the raw names of lines.
AddPvs(c, lines) ==
    /\ th[c].pc = "idle"
    /\ lines # {}
    /\ NoneRunning(lines \ pvs)
    /\ LET now == add_pvs(pvs, pvname, lines, macros)
           new == now.pvs \ pvs
       IN /\ NewHandles(new, now)
          /\ value_to_restore' = ResetAt(value_to_restore, new, None)
          /\ SetStream(FreshStream(Stream, new))
    /\ UNCHANGED <<macros, coordVars, ctxVars, ghostVars>>
    /\ UNCHANGED <<fileVars, restore_blocking_done>>

\* remove_pvs(pv_list) called by an idle caller with the names of the
\* handles at lines: each is popped and disconnected.
RemovePvs(c, lines) ==
    /\ th[c].pc = "idle"
    /\ lines # {}
    /\ lines \subseteq pvs
    /\ NoneRunning(lines)
    /\ NewHandles(lines, [pvs |-> pvs \ lines, pvname |-> pvname])
    /\ value_to_restore' = ResetAt(value_to_restore, lines, None)
    /\ SetStream(FreshStream(Stream, lines))
    /\ UNCHANGED <<macros, coordVars, ctxVars, ghostVars>>
    /\ UNCHANGED <<fileVars, restore_blocking_done>>

\* remove_pvs([name of p]), line 234: the handle is popped from self.pvs.
RemovePvsPop(c, p) ==
    /\ th[c].pc = "idle"
    /\ p \in pvs
    /\ pvs' = pvs \ {p}
    /\ th' = [th EXCEPT ![c].pc = "disconnect", ![c].selected = {p}]
    /\ UNCHANGED <<pvVars, coordVars, tcb, putq, ghostVars, cmpVars>>
    /\ UNCHANGED <<macros, pvname, saved_value>>
    /\ UNCHANGED <<fileVars, restore_blocking_done>>

\* remove_pvs, line 235: the popped handle is disconnected, which releases
\* its callbacks at the transport.
RemovePvsDisconnect(c) ==
    /\ th[c].pc = "disconnect"
    /\ NoneRunning(th[c].selected)
    /\ NewHandles(th[c].selected, [pvs |-> pvs, pvname |-> pvname])
    /\ value_to_restore' = ResetAt(value_to_restore, th[c].selected, None)
    /\ SetStream(FreshStream(Stream, th[c].selected))
    /\ th' = [th EXCEPT ![c] = IdleThread(th[c].ret)]
    /\ UNCHANGED <<macros, coordVars, tcb, putq, ghostVars>>
    /\ UNCHANGED <<fileVars, restore_blocking_done>>

\* change_macros(macros) called by an idle caller.
ChangeMacros(c, m) ==
    /\ th[c].pc = "idle"
    /\ LET new == MacrosDict(m.map)
           pvs_to_change == {p \in pvs : HasMacro(p)}
           now == add_pvs(pvs \ pvs_to_change, pvname, pvs_to_change, new)
           h == [connected |-> ResetAt(connected, pvs_to_change, FALSE),
                 cnct_lost |-> ResetAt(cnct_lost, pvs_to_change, TRUE),
                 is_array |-> ResetAt(is_array, pvs_to_change, FALSE),
                 value |-> value, pvname |-> now.pvname]
           cleared == ResetAt(value_to_restore, pvs_to_change, None)
           desired == IF restore_values_loaded
                      THEN RestoreParameters(now.pvs, now.pvname, cleared,
                                [p \in pvs_to_change |-> value_to_restore[p]], new)
                      ELSE cleared
           st == FreshStream(Stream, pvs_to_change)
       IN IF macros # new
          THEN /\ NoneRunning(pvs_to_change)
               /\ macros' = new
               /\ NewHandles(pvs_to_change, now)
               /\ value_to_restore' = desired
               /\ SetStream(IF restore_values_loaded
                            THEN Restarted(st, h, now.pvs, desired, TRUE)
                            ELSE st)
               /\ all_connected' = \A p \in now.pvs : ~h.cnct_lost[p]
               /\ UNCHANGED <<restore_values_loaded, restore_started,
                              restore_callback, current_restore_forced,
                              restored_pvs_list>>
          ELSE /\ emitted' = <<>>
               /\ UNCHANGED <<pvVars, coordVars, setVars>>
               /\ UNCHANGED <<compare_state, compare_callback,
                              compare_callback_id, last_compare, callbacks, ntf>>
    /\ UNCHANGED <<ctxVars, ghostVars>>
    /\ UNCHANGED <<fileVars, restore_blocking_done>>

\* ----------------------------------------------------------------- save
\* save_pv of channel p: the status returned and the captured value
\* afterwards.  get(use_monitor=True) and self.value are the value the
\* transport delivered last.
save_pv(p) ==
    IF connected[p]
    THEN IF read_access[p]
         THEN [status |-> IF value[p] = None THEN "no_value" ELSE "ok",
               saved_value |-> Normalize(is_array[p], value[p])]
         ELSE [status |-> "access_err", saved_value |-> saved_value[p]]
    ELSE [status |-> "access_err", saved_value |-> None]

\* The metadata parse_to_save_file writes: the keyword arguments kw, and
\* the macros when there are any (1: M = "A", 2: M = "B").
MacroCode(m) == IF <<"M", "A">> \in m.map THEN 1 ELSE 2
MetaData(kw, m) == Dict(IF Truthy(m) THEN <<kw, MacroCode(m)>> ELSE <<kw>>)

\* meta_data.get('macros', dict()) of prepare_pvs_to_restore_from_file; a
\* metadata line that holds no JSON object has no get().
MetaMacros(meta_data) ==
    IF meta_data.kind # "dict" THEN Raised
    ELSE IF Len(meta_data.d) < 2 THEN MacrosDict({})
    ELSE MacrosDict({<<"M", IF meta_data.d[2] = 1 THEN "A" ELSE "B">>})

\* A line written as "name,value" whatever was captured.
SaveLineAlwaysValue(p, isArr, saved) ==
    EntryLine(pvname_raw(p),
              json_dumps(IF isArr /\ saved # None THEN tolist(saved) ELSE saved))

\* The line parse_to_save_file writes for the handle of request line p
\* with the captured value saved (lines 568-575).
SaveLine(p, isArr, saved) ==
    IF saved # None
    THEN EntryLine(pvname_raw(p),
                   json_dumps(IF isArr THEN tolist(saved) ELSE saved))
    ELSE BareLine(pvname_raw(p))

\* The lines parse_to_save_file writes for the handles from request line i
\* on; the write ends at a value that cannot be written.
RECURSIVE SaveLinesFrom(_, _, _, _)
SaveLinesFrom(i, names, isArr, saved) ==
    IF i > NumPvs THEN <<>>
    ELSE IF i \notin names THEN SaveLinesFrom(i + 1, names, isArr, saved)
    ELSE IF SaveLine(i, isArr[i], saved[i]).text.json = "raised" THEN <<>>
    ELSE <<SaveLine(i, isArr[i], saved[i])>>
            \o SaveLinesFrom(i + 1, names, isArr, saved)

\* parse_to_save_file(save_file_path, macros, **kw): the lines of the file.
parse_to_save_file(names, isArr, saved, m, kw) ==
    <<HashLine(json_dumps(MetaData(kw, m)))>>
        \o SaveLinesFrom(1, names, isArr, saved)

\* save_pvs(req_file_name, save_file_path, force, **kw) called by an idle
\* caller.
SavePvs(c, force, kw) ==
    /\ th[c].pc = "idle"
    /\ IF ~force /\ ~all_connected
       THEN /\ pvs_status' = <<[status |-> "no_cnct", pvs_status |-> EmptyDict]>>
            /\ UNCHANGED <<saved_value, save_file>>
       ELSE LET saved == [p \in PvNames |->
                            IF p \in pvs THEN save_pv(p).saved_value
                                         ELSE saved_value[p]]
            IN /\ saved_value' = saved
               /\ pvs_status' = <<[status |-> "ok",
                                   pvs_status |-> [p \in pvs |-> save_pv(p).status]]>>
               /\ save_file' = parse_to_save_file(pvs, is_array, saved, macros, kw)
    /\ UNCHANGED <<pvVars, coordVars, ctxVars, ghostVars, cmpVars>>
    /\ UNCHANGED <<pvs, macros, pvname, read_access, parsed, restore_blocking_done>>

\* parse_from_save_file(save_file_path) called on the save file on disk.
ParseFromSaveFile ==
    /\ parsed' = <<parse_from_save_file(save_file)>>
    /\ UNCHANGED <<pvVars, coordVars, ctxVars, ghostVars, setVars, cmpVars>>
    /\ UNCHANGED <<read_access, save_file, pvs_status, restore_blocking_done>>

\* replace_metadata(save_file_path, metadata) called on the save file on
\* disk; on an empty file it raises and writes nothing.
ReplaceMetadata(metadata) ==
    /\ save_file' = replace_metadata(save_file, metadata)
    /\ parsed' = <<>>
    /\ UNCHANGED <<pvVars, coordVars, ctxVars, ghostVars, setVars, cmpVars>>
    /\ UNCHANGED <<read_access, pvs_status, restore_blocking_done>>

\* The records a parsed save file gives, keyed by request line: the raw
\* names of the request file are distinct.
ByLine(saved_pvs) ==
    [p \in {q \in PvNames : pvname_raw(q) \in DOMAIN saved_pvs} |->
        saved_pvs[pvname_raw(p)]]

\* The macros prepare_pvs_to_restore_from_list substitutes in the record's
\* names: self.macros, or custom_macros when the set has none (lines
\* 285-288).
AppliedMacros(custom_macros) == IF Truthy(macros) THEN macros ELSE custom_macros

\* prepare_pvs_to_restore_from_file(save_file_path) called by an idle caller
\* on the save file on disk.
PreparePvsToRestoreFromFile(c) ==
    /\ th[c].pc = "idle"
    /\ save_file # <<>>
    /\ LET file == parse_from_save_file(save_file)
           desired == RestoreParameters(pvs, pvname, value_to_restore,
                                        ByLine(file.saved_pvs),
                                        AppliedMacros(MetaMacros(file.meta_data)))
       IN /\ file.meta_data.kind = "dict"
          /\ value_to_restore' = desired
          /\ restore_values_loaded' = TRUE
          /\ SetStream(Restarted(Stream, Handles, pvs, desired, TRUE))
    /\ UNCHANGED <<connected, cnct_lost, is_array, write_access, value, cnct_pc>>
    /\ UNCHANGED <<restore_started, all_connected, restore_callback,
                   current_restore_forced, restored_pvs_list>>
    /\ UNCHANGED <<ctxVars, ghostVars, setVars, ntf>>
    /\ UNCHANGED <<fileVars, restore_blocking_done>>

\* The transport grants or withdraws read access on channel p.
AccessRightsCallback(p, ra) ==
    /\ p \in pvs
    /\ ra # read_access[p]
    /\ read_access' = [read_access EXCEPT ![p] = ra]
    /\ UNCHANGED <<pvVars, coordVars, ctxVars, ghostVars, setVars, cmpVars>>
    /\ UNCHANGED <<save_file, parsed, pvs_status, restore_blocking_done>>

\* ------------------------------------------------- compare stream calls
\* The largest callback index the transport has given out for a handle.
MaxIndexUsed ==
    LET used == UNION {callbacks[p] : p \in PvNames}
    IN IF used = {} THEN 0 ELSE CHOOSE i \in used : \A j \in used : j <= i

\* start_continuous_compare(callback, save_file_path) called by an idle
\* caller: with a save file the desired values are loaded first, which
\* restarts a running stream before the loop of lines 417-430 runs.
StartContinuousCompare(c, cb, file, saved_pvs) ==
    /\ th[c].pc = "idle"
    /\ MaxIndexUsed < MaxIndex
    /\ LET desired == IF file THEN set_restore_parameters(saved_pvs)
                              ELSE value_to_restore
           loaded == file \/ restore_values_loaded
           named == [Stream EXCEPT !.cb = cb]
           st == IF file THEN Restarted(named, Handles, pvs, desired, TRUE)
                         ELSE named
       IN /\ value_to_restore' = desired
          /\ restore_values_loaded' = loaded
          /\ SetStream(start_continuous_compare(st, Handles, cb, pvs, desired,
                                                loaded))
    /\ UNCHANGED <<connected, cnct_lost, is_array, write_access, value, cnct_pc>>
    /\ UNCHANGED <<restore_started, all_connected, restore_callback,
                   current_restore_forced, restored_pvs_list>>
    /\ UNCHANGED <<ctxVars, ghostVars, setVars, ntf>>
    /\ UNCHANGED <<fileVars, restore_blocking_done>>

\* stop_continuous_compare() called by an idle caller.
StopContinuousCompare(c) ==
    /\ th[c].pc = "idle"
    /\ SetStream(stop_continuous_compare(Stream, pvs))
    /\ UNCHANGED <<pvVars, coordVars, ctxVars, ghostVars, setVars, ntf>>
    /\ UNCHANGED <<fileVars, restore_blocking_done>>

\* ------------------------------------------------------------- restore
\* dict(restored_pvs_list): the last status appended for each name.
ListKeys(l) == {l[i][1] : i \in 1..Len(l)}
LastIndex(l, k) == CHOOSE i \in 1..Len(l) :
                      /\ l[i][1] = k
                      /\ \A j \in (i + 1)..Len(l) : l[j][1] # k
dict(l) == [k \in ListKeys(l) |-> l[LastIndex(l, k)][2]]

\* SnapshotPv.compare(value)
compare(p, v) == compare_with(is_array[p], v, value_to_restore[p])

\* SnapshotPv.restore_pv: the status it hands to the callback at once, or
\* "put" when it issues an asynchronous write.
restore_pv(p) ==
    IF connected[p]
    THEN IF write_access[p]
         THEN IF value_to_restore[p] = None THEN "no_value"
              ELSE IF ~compare(p, value[p]) THEN "put"
              ELSE "equal"
         ELSE "access_err"
    ELSE "access_err"

\* Variants of the two tests below, for checking that the properties of
\* the rejections tell them apart from the tests of the code.
\* The rejection test with the selection ignored.
NotConnectedRejectAll(force, selected) == ~force /\ ~all_connected

\* The rejection test asking for force and the connection condition together.
NotConnectedRejectBoth(force, selected) ==
    ~(force /\ (   (check_pvs_connected_status(selected) /\ selected # {})
                \/ (all_connected /\ selected = {})))

\* The no_data test looking at the desired values instead of the flag.
NoDataRejectByValues == \A p \in PvNames : value_to_restore[p] = None

\* The rejection test of restore_pvs (lines 364-365).
NotConnectedReject(force, selected) ==
    ~force /\ (   (~check_pvs_connected_status(selected) /\ selected # {})
               \/ (~all_connected /\ selected = {}))

\* The no_data test of restore_pvs (line 353).
NoDataReject == ~restore_values_loaded

\* The test of check_restore_complete (line 385).
RestoreCompleteTest ==
    Len(restored_pvs_list) = Cardinality(pvs) /\ restore_callback # NoCallback

\* restore_pvs, lines 339-346: the call and its busy test.
RestorePvs(c, force, selected, file) ==
    /\ th[c].pc = "idle"
    /\ ncalls < MaxCalls
    /\ ncalls' = ncalls + 1
    /\ IF restore_started
       THEN th' = [th EXCEPT ![c].ret = "busy"]
       ELSE th' = [th EXCEPT ![c] = [pc |-> "start", force |-> force,
                                     selected |-> selected, file |-> file,
                                     idx |-> 0, ret |-> "none",
                                     callback |-> "callback"]]
    /\ UNCHANGED <<pvVars, coordVars, tcb, putq, fired>>
    /\ UNCHANGED <<setVars, cmpVars>>
    /\ UNCHANGED <<fileVars, restore_blocking_done>>

\* restore_pvs called without a callback (callback=None, the default) on the
\* values already loaded: lines 339-346.
RestorePvsNoCallback(c, force, selected) ==
    /\ th[c].pc = "idle"
    /\ ncalls < MaxCalls
    /\ ncalls' = ncalls + 1
    /\ IF restore_started
       THEN th' = [th EXCEPT ![c].ret = "busy"]
       ELSE th' = [th EXCEPT ![c] = [pc |-> "start", force |-> force,
                                     selected |-> selected, file |-> FALSE,
                                     idx |-> 0, ret |-> "none",
                                     callback |-> "None"]]
    /\ UNCHANGED <<pvVars, coordVars, tcb, putq, fired>>
    /\ UNCHANGED <<setVars, cmpVars>>
    /\ UNCHANGED <<fileVars, restore_blocking_done>>

\* restore_pvs, lines 348-351: mark the restore started, keep the force flag,
\* load the save file when one is named.
RestoreStart(c, saved_pvs) ==
    /\ th[c].pc = "start"
    /\ restore_started' = TRUE
    /\ current_restore_forced' = th[c].force
    /\ IF th[c].file
       THEN /\ value_to_restore' = set_restore_parameters(saved_pvs)
            /\ restore_values_loaded' = TRUE
            /\ SetStream(Restarted(Stream, Handles, pvs,
                                   set_restore_parameters(saved_pvs), TRUE))
       ELSE UNCHANGED <<value_to_restore, restore_values_loaded,
                        compare_state, compare_callback, compare_callback_id,
                        last_compare, callbacks, emitted>>
    /\ th' = [th EXCEPT ![c].pc = "validate"]
    /\ UNCHANGED <<connected, cnct_lost, is_array, write_access, value, cnct_pc>>
    /\ UNCHANGED <<all_connected, restore_callback, restored_pvs_list>>
    /\ UNCHANGED <<tcb, putq, ghostVars, setVars, ntf>>
    /\ UNCHANGED <<fileVars, restore_blocking_done>>

\* restore_pvs, lines 348-351, when save_file_path names a file that cannot
\* be read: restore_started and current_restore_forced are set, open() raises
\* inside parse_from_save_file (line 596) and the exception leaves
\* restore_pvs.
RestoreStartFails(c) ==
    /\ th[c].pc = "start"
    /\ th[c].file
    /\ restore_started' = TRUE
    /\ current_restore_forced' = th[c].force
    /\ th' = [th EXCEPT ![c] = IdleThread("error")]
    /\ UNCHANGED <<pvVars, restore_values_loaded, all_connected, restore_callback,
                   restored_pvs_list, tcb, putq, ghostVars>>
    /\ UNCHANGED <<setVars, cmpVars>>
    /\ UNCHANGED <<fileVars, restore_blocking_done>>

\* restore_pvs, lines 353-372: reject with no_data or no_cnct, else reset the
\* outcome list and register the callback.
RestoreValidate(c) ==
    /\ th[c].pc = "validate"
    /\ IF NoDataReject
       THEN /\ restore_started' = FALSE
            /\ th' = [th EXCEPT ![c] = IdleThread("no_data")]
            /\ UNCHANGED <<restored_pvs_list, restore_callback, fired>>
       ELSE IF NotConnectedReject(th[c].force, th[c].selected)
       THEN /\ restore_started' = FALSE
            /\ th' = [th EXCEPT ![c] = IdleThread("no_cnct")]
            /\ UNCHANGED <<restored_pvs_list, restore_callback, fired>>
       ELSE /\ restored_pvs_list' = <<>>
            /\ restore_callback' =
                  IF th[c].callback = "None" THEN NoCallback
                  ELSE [caller |-> c, force |-> th[c].force,
                        fn |-> th[c].callback]
            /\ fired' = [fired EXCEPT ![c] = 0]
            /\ th' = [th EXCEPT ![c].pc = "loop", ![c].idx = 1]
            /\ UNCHANGED restore_started
    /\ UNCHANGED <<pvVars, restore_values_loaded, all_connected,
                   current_restore_forced, tcb, putq, ncalls>>
    /\ UNCHANGED <<setVars, cmpVars>>
    /\ UNCHANGED <<fileVars, restore_blocking_done>>

\* restore_pvs, lines 373-379, one iteration (a request line that has no
\* handle in self.pvs is passed over): restore_pv for a channel of the
\* selection (a put, or a status handed to check_restore_complete at once),
\* the synthetic ok for a channel outside it.  The append of line 384 is
\* part of the step; the test of line 385 is the next step.
RestoreLoop(c) ==
    /\ th[c].pc = "loop"
    /\ th[c].idx <= NumPvs
    /\ LET p == th[c].idx
       IN IF p \notin pvs
          THEN /\ th' = [th EXCEPT ![c].idx = p + 1]
               /\ UNCHANGED <<restored_pvs_list, putq>>
          ELSE IF th[c].selected = {} \/ p \in th[c].selected
          THEN IF restore_pv(p) = "put"
               THEN /\ putq' = [putq EXCEPT ![p] = Append(@, value_to_restore[p])]
                    /\ th' = [th EXCEPT ![c].idx = p + 1]
                    /\ UNCHANGED restored_pvs_list
               ELSE /\ restored_pvs_list' =
                            Append(restored_pvs_list, <<p, restore_pv(p)>>)
                    /\ th' = [th EXCEPT ![c].pc = "test"]
                    /\ UNCHANGED putq
          ELSE /\ restored_pvs_list' = Append(restored_pvs_list, <<p, "ok">>)
               /\ th' = [th EXCEPT ![c].pc = "test"]
               /\ UNCHANGED putq
    /\ UNCHANGED <<pvVars, restore_values_loaded, restore_started, all_connected,
                   restore_callback, current_restore_forced, tcb, ghostVars>>
    /\ UNCHANGED <<setVars, cmpVars>>
    /\ UNCHANGED <<fileVars, restore_blocking_done>>

\* restore_pvs, line 380; restore_pvs_blocking goes on to wait for
\* restore_blocking_done (lines 393-396).
RestoreReturn(c) ==
    /\ th[c].pc = "loop"
    /\ th[c].idx > NumPvs
    /\ th' = [th EXCEPT ![c] = IF th[c].callback = "set_restore_blocking_done"
                               THEN [th[c] EXCEPT !.pc = "wait"]
                               ELSE IdleThread("ok")]
    /\ UNCHANGED <<pvVars, coordVars, tcb, putq, ghostVars>>
    /\ UNCHANGED <<setVars, cmpVars>>
    /\ UNCHANGED <<fileVars, restore_blocking_done>>

\* restore_pvs_blocking, lines 391-392: the flag is reset and restore_pvs is
\* called with set_restore_blocking_done as its callback; a busy coordinator
\* makes it return at once (lines 344-346 and 404-405).
RestorePvsBlocking(c, force) ==
    /\ th[c].pc = "idle"
    /\ ncalls < MaxCalls
    /\ ncalls' = ncalls + 1
    /\ restore_blocking_done' = FALSE
    /\ IF restore_started
       THEN th' = [th EXCEPT ![c].ret = "busy"]
       ELSE th' = [th EXCEPT ![c] = [pc |-> "start", force |-> force,
                                     selected |-> {}, file |-> FALSE,
                                     idx |-> 0, ret |-> "none",
                                     callback |-> "set_restore_blocking_done"]]
    /\ UNCHANGED <<pvVars, coordVars, tcb, putq, fired>>
    /\ UNCHANGED <<setVars, cmpVars>>
    /\ UNCHANGED fileVars

\* restore_pvs_blocking, lines 395-400: the wait ends because the flag is
\* set, and the call returns ok.
BlockingDone(c) ==
    /\ th[c].pc = "wait"
    /\ restore_blocking_done
    /\ th' = [th EXCEPT ![c] = IdleThread("ok")]
    /\ UNCHANGED <<pvVars, coordVars, tcb, putq, ghostVars>>
    /\ UNCHANGED <<setVars, cmpVars>>
    /\ UNCHANGED <<fileVars, restore_blocking_done>>

\* restore_pvs_blocking, lines 395-402: the time is over with the flag not
\* set, and the call returns timeout.
BlockingTimeout(c) ==
    /\ th[c].pc = "wait"
    /\ ~restore_blocking_done
    /\ th' = [th EXCEPT ![c] = IdleThread("timeout")]
    /\ UNCHANGED <<pvVars, coordVars, tcb, putq, ghostVars>>
    /\ UNCHANGED <<setVars, cmpVars>>
    /\ UNCHANGED <<fileVars, restore_blocking_done>>

\* check_restore_complete run by a caller inside restore_pvs: line 385.
CallerCompleteTest(c) ==
    /\ th[c].pc = "test"
    /\ IF RestoreCompleteTest
       THEN th' = [th EXCEPT ![c].pc = "done"]
       ELSE th' = [th EXCEPT ![c].pc = "loop", ![c].idx = @ + 1]
    /\ UNCHANGED <<pvVars, coordVars, tcb, putq, ghostVars>>
    /\ UNCHANGED <<setVars, cmpVars>>
    /\ UNCHANGED <<fileVars, restore_blocking_done>>

\* line 386
CallerCompleteIdle(c) ==
    /\ th[c].pc = "done"
    /\ restore_started' = FALSE
    /\ th' = [th EXCEPT ![c].pc = "call"]
    /\ UNCHANGED <<pvVars, restore_values_loaded, all_connected, restore_callback,
                   current_restore_forced, restored_pvs_list, tcb, putq, ghostVars>>
    /\ UNCHANGED <<setVars, cmpVars>>
    /\ UNCHANGED <<fileVars, restore_blocking_done>>

\* line 387: the callback registered now is called with the list and the
\* force flag as they are now; calling None raises out of restore_pvs.
CallerCompleteCall(c) ==
    /\ th[c].pc = "call"
    /\ IF restore_callback = NoCallback
       THEN /\ th' = [th EXCEPT ![c] = IdleThread("error")]
            /\ UNCHANGED fired
       ELSE /\ fired' = [fired EXCEPT ![restore_callback.caller] = @ + 1]
            /\ th' = [th EXCEPT ![c].pc = "clear"]
    /\ restore_blocking_done' =
          (restore_blocking_done \/ restore_callback.fn = "set_restore_blocking_done")
    /\ UNCHANGED <<pvVars, coordVars, tcb, putq, ncalls>>
    /\ UNCHANGED <<setVars, cmpVars>>
    /\ UNCHANGED fileVars

\* line 388
CallerCompleteClear(c) ==
    /\ th[c].pc = "clear"
    /\ restore_callback' = NoCallback
    /\ th' = [th EXCEPT ![c].pc = "loop", ![c].idx = @ + 1]
    /\ UNCHANGED <<pvVars, restore_values_loaded, restore_started, all_connected,
                   current_restore_forced, restored_pvs_list, tcb, putq, ghostVars>>
    /\ UNCHANGED <<setVars, cmpVars>>
    /\ UNCHANGED <<fileVars, restore_blocking_done>>

\* The transport reports the completion of the oldest put on p: the put
\* callback is verify_restore_response with the status bound when the put
\* was issued (ok), whether the write was applied or rejected; it calls
\* check_restore_complete, whose append (line 384) is part of this step.
PutCallback(p, applied) ==
    /\ tcb[p].pc = "idle"
    /\ putq[p] # <<>>
    /\ applied => connected[p]
    /\ putq' = [putq EXCEPT ![p] = Tail(@)]
    /\ value' = [value EXCEPT ![p] = IF applied THEN Present(Head(putq[p])) ELSE @]
    /\ restored_pvs_list' = Append(restored_pvs_list, <<p, "ok">>)
    /\ tcb' = [tcb EXCEPT ![p] = [pc |-> "test", applied |-> applied]]
    /\ UNCHANGED <<connected, cnct_lost, is_array, write_access,
                   value_to_restore, cnct_pc>>
    /\ UNCHANGED <<restore_values_loaded, restore_started, all_connected,
                   restore_callback, current_restore_forced, th, ghostVars>>
    /\ UNCHANGED <<setVars, cmpVars>>
    /\ UNCHANGED <<fileVars, restore_blocking_done>>

\* The transport reports the completion of the oldest put on p and will
\* report it again: verify_restore_response and check_restore_complete keep
\* no record of the channels that have reported, so each delivery is handled
\* as PutCallback handles the only one.
PutCallbackAgain(p, applied) ==
    /\ tcb[p].pc = "idle"
    /\ putq[p] # <<>>
    /\ applied => connected[p]
    /\ Len(restored_pvs_list) < MaxOutcomes
    /\ value' = [value EXCEPT ![p] = IF applied THEN Present(Head(putq[p])) ELSE @]
    /\ restored_pvs_list' = Append(restored_pvs_list, <<p, "ok">>)
    /\ tcb' = [tcb EXCEPT ![p] = [pc |-> "test", applied |-> applied]]
    /\ UNCHANGED <<connected, cnct_lost, is_array, write_access,
                   value_to_restore, cnct_pc, putq>>
    /\ UNCHANGED <<restore_values_loaded, restore_started, all_connected,
                   restore_callback, current_restore_forced, th, ghostVars>>
    /\ UNCHANGED <<setVars, cmpVars>>
    /\ UNCHANGED <<fileVars, restore_blocking_done>>

\* check_restore_complete run by the put callback of p: line 385.
PutCompleteTest(p) ==
    /\ tcb[p].pc = "test"
    /\ tcb' = [tcb EXCEPT ![p] = IF RestoreCompleteTest
                                 THEN [@ EXCEPT !.pc = "done"]
                                 ELSE IdleCallback]
    /\ UNCHANGED <<pvVars, coordVars, th, putq, ghostVars>>
    /\ UNCHANGED <<setVars, cmpVars>>
    /\ UNCHANGED <<fileVars, restore_blocking_done>>

\* line 386
PutCompleteIdle(p) ==
    /\ tcb[p].pc = "done"
    /\ restore_started' = FALSE
    /\ tcb' = [tcb EXCEPT ![p].pc = "call"]
    /\ UNCHANGED <<pvVars, restore_values_loaded, all_connected, restore_callback,
                   current_restore_forced, restored_pvs_list, th, putq, ghostVars>>
    /\ UNCHANGED <<setVars, cmpVars>>
    /\ UNCHANGED <<fileVars, restore_blocking_done>>

\* line 387; an exception in a transport callback ends that callback only.
PutCompleteCall(p) ==
    /\ tcb[p].pc = "call"
    /\ IF restore_callback = NoCallback
       THEN /\ tcb' = [tcb EXCEPT ![p] = IdleCallback]
            /\ UNCHANGED fired
       ELSE /\ fired' = [fired EXCEPT ![restore_callback.caller] = @ + 1]
            /\ tcb' = [tcb EXCEPT ![p].pc = "clear"]
    /\ restore_blocking_done' =
          (restore_blocking_done \/ restore_callback.fn = "set_restore_blocking_done")
    /\ UNCHANGED <<pvVars, coordVars, th, putq, ncalls>>
    /\ UNCHANGED <<setVars, cmpVars>>
    /\ UNCHANGED fileVars

\* The outcomes a restore_pvs call over the whole set appends before it
\* returns, in the order of its loop, and the channels it issues a put to.
SyncOutcomes ==
    SelectSeq([i \in 1..NumPvs |-> <<i, restore_pv(i)>>],
              LAMBDA e : e[1] \in pvs /\ e[2] # "put")
PutChannels == {q \in pvs : restore_pv(q) = "put"}

\* line 387 when the completion callback itself calls
\* restore_pvs(callback=cb2) before it returns: the nested call runs lines
\* 339-380 in the put callback of p - busy, no_data or no_cnct, else it
\* resets the list, registers cb2 (accounted to "aux"), issues its puts and
\* appends the outcomes known at once, completing inside the call when no
\* put is needed - and the hook then goes on to line 388.
PutCompleteCallNested(p) ==
    /\ tcb[p].pc = "call"
    /\ restore_callback.fn = "callback"
    /\ ncalls < MaxCalls
    /\ ncalls' = ncalls + 1
    /\ LET accepted == /\ ~restore_started
                       /\ ~NoDataReject
                       /\ ~NotConnectedReject(FALSE, {})
           complete == accepted /\ PutChannels = {} /\ pvs # {}
       IN /\ fired' = [c \in Callers |->
                          IF c = "aux"
                          THEN (IF complete THEN 1 ELSE IF accepted THEN 0
                                ELSE fired[c])
                                  + (IF restore_callback.caller = c THEN 1 ELSE 0)
                          ELSE fired[c]
                                  + (IF restore_callback.caller = c THEN 1 ELSE 0)]
          /\ restore_started' = IF accepted THEN ~complete ELSE restore_started
          /\ current_restore_forced' =
                IF restore_started THEN current_restore_forced ELSE FALSE
          /\ restored_pvs_list' =
                IF accepted THEN SyncOutcomes ELSE restored_pvs_list
          /\ restore_callback' =
                IF complete THEN NoCallback
                ELSE IF accepted
                THEN [caller |-> "aux", force |-> FALSE, fn |-> "callback"]
                ELSE restore_callback
          /\ putq' = [q \in PvNames |->
                         IF accepted /\ q \in PutChannels
                         THEN Append(putq[q], value_to_restore[q])
                         ELSE putq[q]]
    /\ tcb' = [tcb EXCEPT ![p].pc = "clear"]
    /\ UNCHANGED <<pvVars, restore_values_loaded, all_connected, th>>
    /\ UNCHANGED <<setVars, cmpVars>>
    /\ UNCHANGED <<fileVars, restore_blocking_done>>

\* line 388
PutCompleteClear(p) ==
    /\ tcb[p].pc = "clear"
    /\ restore_callback' = NoCallback
    /\ tcb' = [tcb EXCEPT ![p] = IdleCallback]
    /\ UNCHANGED <<pvVars, restore_values_loaded, restore_started, all_connected,
                   current_restore_forced, restored_pvs_list, th, putq, ghostVars>>
    /\ UNCHANGED <<setVars, cmpVars>>
    /\ UNCHANGED <<fileVars, restore_blocking_done>>

\* ------------------------------------------------------- specifications
\* The steps of restore_pvs and of the completion hook taken by caller c,
\* with the arguments of the calls drawn from forces, sels and files and the
\* save files a call can name drawn from records.
RestoreSteps(c, records, files, forces, sels) ==
    \/ \E force \in forces, selected \in sels, file \in files :
          RestorePvs(c, force, selected, file)
    \/ \E r \in records : RestoreStart(c, r)
    \/ RestoreValidate(c)
    \/ RestoreLoop(c)
    \/ RestoreReturn(c)
    \/ CallerCompleteTest(c)
    \/ CallerCompleteIdle(c)
    \/ CallerCompleteCall(c)
    \/ CallerCompleteClear(c)

\* The steps of the transport's put callbacks.
PutSteps ==
    \/ \E p \in PvNames, applied \in BOOLEAN : PutCallback(p, applied)
    \/ \E p \in PvNames : PutCompleteTest(p)
    \/ \E p \in PvNames : PutCompleteIdle(p)
    \/ \E p \in PvNames : PutCompleteCall(p)
    \/ \E p \in PvNames : PutCompleteClear(p)

\* The steps of the transport's connection callbacks.
CnctSteps ==
    \/ \E p \in PvNames, conn \in BOOLEAN : CnctCallbackBegin(p, conn)
    \/ \E p \in PvNames : CnctCallbackEnd(p)
    \/ \E p \in PvNames : CnctCallbackStore(p)

\* The record that holds no value for any channel and the record equal to
\* the live values LiveEq.
RecNone == [p \in PvNames |-> None]
EqualRecords == {RecNone, LiveEq}

\* Spec: the program from construction.  The transport connects and
\* disconnects channels at any time, one caller loads and clears records and
\* calls restore_pvs from its list of desired values.  The records are those
\* that need no write, so every outcome is handed over inside restore_pvs.
Next ==
    \/ CnctSteps
    \/ \E r \in EqualRecords : PreparePvsToRestore("main", r)
    \/ ClearPvsToRestore("main")
    \/ RestoreSteps("main", EqualRecords, {FALSE}, BOOLEAN, SUBSET PvNames)

Spec == Init /\ [][Next]_vars

\* SpecSet: the set is made with any macros, and one caller adds and removes
\* channels, changes the macros and loads and clears records while the
\* transport delivers connection callbacks.
Constructed(m) ==
    /\ ChannelsWith(AllTrue, LiveEq, {}, <<>>)
    /\ FilesWith(AllTrue, <<>>)
    /\ macros = m
    /\ LET now == add_pvs({}, [p \in PvNames |-> pvname_raw(p)], PvNames, m)
       IN /\ pvs = now.pvs
          /\ pvname = [p \in PvNames |-> IF p \in now.pvs THEN now.pvname[p]
                                                          ELSE pvname_raw(p)]

InitSet == \E m \in MacrosValues : Constructed(m)

NextSet ==
    \/ CnctSteps
    \/ \E lines \in SUBSET PvNames : AddPvs("main", lines)
    \/ \E lines \in SUBSET PvNames : RemovePvs("main", lines)
    \/ \E m \in MacrosValues : ChangeMacros("main", m)
    \/ \E r \in EqualRecords : PreparePvsToRestore("main", r)
    \/ ClearPvsToRestore("main")

SpecSet == InitSet /\ [][NextSet]_vars

\* The steps of the transport's value notifications.
NotifySteps ==
    \/ \E p \in PvNames, v \in UNION {LiveValues(q) : q \in PvNames} : NotifyBegin(p, v)
    \/ \E p \in PvNames : NotifyRun(p)
    \/ \E p \in PvNames : NotifyLoad(p)
    \/ \E p \in PvNames, stops \in BOOLEAN : NotifyCall(p, stops)

\* A record that holds a value for the first channel only.
RecFirst == [p \in PvNames |-> IF p = 1 THEN Scalar(0) ELSE None]
StreamRecords == {RecFirst}

\* SpecStream: one caller starts and stops the compare stream, loads and
\* clears records and changes the macros, while the transport delivers
\* connection callbacks and value notifications.
NextStream ==
    \/ CnctSteps
    \/ NotifySteps
    \/ \E cb \in Listeners : StartContinuousCompare("main", cb, FALSE, RecNone)
    \/ \E cb \in Listeners, r \in StreamRecords :
          StartContinuousCompare("main", cb, TRUE, r)
    \/ StopContinuousCompare("main")
    \/ \E r \in StreamRecords : PreparePvsToRestore("main", r)
    \/ ClearPvsToRestore("main")

SpecStream == Init /\ [][NextStream]_vars

\* SpecMacroStream: one caller starts the compare stream, loads records and
\* changes the macros while the transport delivers connection callbacks.
NextMacroStream ==
    \/ CnctSteps
    \/ \E cb \in Listeners : StartContinuousCompare("main", cb, FALSE, RecNone)
    \/ StopContinuousCompare("main")
    \/ \E r \in StreamRecords : PreparePvsToRestore("main", r)
    \/ \E m \in MacrosValues : ChangeMacros("main", m)

SpecMacroStream == Init /\ [][NextMacroStream]_vars

\* SpecReload: one caller starts and stops the compare stream and loads
\* records, some of them malformed, while the transport delivers connection
\* callbacks.
NextReload ==
    \/ CnctSteps
    \/ \E cb \in Listeners : StartContinuousCompare("main", cb, FALSE, RecNone)
    \/ StopContinuousCompare("main")
    \/ \E r \in StreamRecords : PreparePvsToRestore("main", r)
    \/ \E r \in StreamRecords, bad \in PvNames :
          PreparePvsToRestoreFails("main", r, bad)

SpecReload == Init /\ [][NextReload]_vars

\* The values the transport can hold for channel p when a save is made:
\* the live values, no value at all and, for a waveform, an empty array, for
\* a scalar channel a string.
SaveValues(p) ==
    LiveValues(p) \cup {None}
        \cup (IF element_count(p) > 1 THEN {Array(<<>>)} ELSE {Str(<<1>>)})

\* SpecSave: a set made with any macros, any channels of it connected with
\* any latest value and read access; one caller saves and reads the save
\* file back while the transport changes the read access.
InitSave ==
    \E m \in MacrosValues, conn \in SUBSET PvNames, ra \in [PvNames -> BOOLEAN],
       live \in [PvNames -> UNION {SaveValues(p) : p \in PvNames}] :
          LET now == add_pvs({}, [p \in PvNames |-> pvname_raw(p)], PvNames, m)
          IN /\ conn \subseteq now.pvs
             /\ \A p \in PvNames : live[p] \in SaveValues(p)
             /\ ChannelsWith(AllTrue, live, conn, <<>>)
             /\ FilesWith(ra, <<>>)
             /\ macros = m
             /\ pvs = now.pvs
             /\ pvname = [p \in PvNames |-> IF p \in now.pvs THEN now.pvname[p]
                                                             ELSE pvname_raw(p)]

NextSave ==
    \/ \E force \in BOOLEAN, kw \in {1, 2} : SavePvs("main", force, kw)
    \/ ParseFromSaveFile
    \/ \E p \in PvNames, ra \in BOOLEAN : AccessRightsCallback(p, ra)

SpecSave == InitSave /\ [][NextSave]_vars

\* The parsed records a caller can pass: any of the request lines may be
\* missing.
PartialRecords ==
    {r \in UNION {[d -> UNION {FileValues(p) : p \in PvNames}] :
                     d \in SUBSET PvNames} :
        \A p \in DOMAIN r : r[p] \in FileValues(p)}

\* SpecLoad: a set made with any macros, any channels of it connected with
\* any latest value; one caller saves, changes the macros, and loads
\* desired values from the save file or from a record.
InitLoad == InitSave /\ read_access = AllTrue

NextLoad ==
    \/ \E kw \in {1, 2} : SavePvs("main", TRUE, kw)
    \/ \E m \in MacrosValues : ChangeMacros("main", m)
    \/ \E r \in PartialRecords : PreparePvsToRestore("main", r)
    \/ PreparePvsToRestoreFromFile("main")
    \/ ClearPvsToRestore("main")

SpecLoad == InitLoad /\ [][NextLoad]_vars

\* The lines a save file on disk can hold: a header and comments that are
\* JSON or not, entries whose value is JSON or not, a bare name, a blank
\* line; and the files of up to MaxLines of them.
MaxLines == 3
FileLines ==
    {HashLine(json_dumps(Dict(<<1>>))), HashLine(Garbage), BlankLine,
     EntryLine(pvname_raw(1), json_dumps(Scalar(0))),
     EntryLine(pvname_raw(1), Garbage),
     EntryLine(pvname_raw(2), json_dumps(List(<<0, 1>>))),
     EntryLine(pvname_raw(2), Garbage),
     BareLine(pvname_raw(2))}
Files == UNION {[1..n -> FileLines] : n \in 0..MaxLines}

\* SpecFile: any such file is on disk; it is read, and its metadata are
\* replaced.
InitFile ==
    \E f \in Files :
        /\ ChannelsWith(AllTrue, LiveEq, {}, <<>>)
        /\ FilesWith(AllTrue, f)
        /\ pvs = PvNames
        /\ macros = MacrosNone
        /\ pvname = [p \in PvNames |-> pvname_raw(p)]

NextFile ==
    \/ ParseFromSaveFile
    \/ \E metadata \in {Dict(<<2>>), Dict(<<2, 1>>)} : ReplaceMetadata(metadata)

SpecFile == InitFile /\ [][NextFile]_vars

\* SpecRestore: one caller and the transport's put callbacks, started in any
\* state the program is in between calls: any channels connected, any live
\* values and write access, nothing or any record loaded.
InitRestore ==
    \E wa \in [PvNames -> BOOLEAN], live \in Lives, conn \in SUBSET PvNames,
       rec \in {<<>>} \cup {<<r>> : r \in Records} :
          StateWith(wa, live, conn, rec)

NextRestore ==
    \/ RestoreSteps("main", Records, BOOLEAN, BOOLEAN, SUBSET PvNames)
    \/ PutSteps

SpecRestore == InitRestore /\ [][NextRestore]_vars

\* SpecTwo: two callers call restore_pvs on an idle coordinator with every
\* channel connected and a record loaded.
InitTwo == StateWith(AllTrue, LiveEq, PvNames, <<LiveEq>>)

NextTwo ==
    \E c \in Callers : RestoreSteps(c, EqualRecords, {FALSE}, BOOLEAN, {{}})

SpecTwo == InitTwo /\ [][NextTwo]_vars

\* The record that asks for a write on the first channel only.
RecPut == [p \in PvNames |-> IF p = 1 THEN Scalar(1) ELSE LiveEq[p]]

\* SpecLive: every channel connected and writable, RecPut loaded; one caller
\* calls restore_pvs with a callback.  Every caller goes on running and the
\* transport delivers the completion of every put it has accepted.
InitLive == StateWith(AllTrue, LiveEq, PvNames, <<RecPut>>)

NextLive ==
    \/ RestoreSteps("main", {RecPut}, {FALSE}, BOOLEAN, {{}})
    \/ PutSteps

SpecLive ==
    /\ InitLive
    /\ [][NextLive]_vars
    /\ WF_vars(RestoreSteps("main", {RecPut}, {FALSE}, BOOLEAN, {{}}))
    /\ WF_vars(PutSteps)

\* The record that asks for a write on both channels.
RecBoth == [p \in PvNames |-> IF element_count(p) > 1 THEN Array(<<0>>)
                                                        ELSE Scalar(1)]

\* SpecDup: every channel connected and writable, RecBoth loaded; one caller
\* calls restore_pvs, and the transport may deliver the completion of a put
\* more than once.
InitDup == StateWith(AllTrue, LiveEq, PvNames, <<RecBoth>>)

NextDup ==
    \/ RestoreSteps("main", {RecBoth}, {FALSE}, {FALSE}, {{}})
    \/ PutSteps
    \/ \E p \in PvNames, applied \in BOOLEAN : PutCallbackAgain(p, applied)

SpecDup == InitDup /\ [][NextDup]_vars

\* The state of a snapshot made from a request file that names no channel,
\* after a record has been loaded.
EmptySet ==
    /\ ChannelsWith(AllTrue, LiveEq, {}, <<RecNone>>)
    /\ FilesWith(AllTrue, <<>>)
    /\ pvs = {}
    /\ macros = MacrosNone
    /\ pvname = [p \in PvNames |-> pvname_raw(p)]

\* SpecNoCallback: one caller calls restore_pvs with and without a callback,
\* on a set with every channel connected or on an empty set.
InitNoCallback ==
    \/ StateWith(AllTrue, LiveEq, PvNames, <<RecPut>>)
    \/ EmptySet

NextNoCallback ==
    \/ RestoreSteps("main", {RecPut}, {FALSE}, BOOLEAN, {{}})
    \/ PutSteps
    \/ \E force \in BOOLEAN : RestorePvsNoCallback("main", force, {})

SpecNoCallback == InitNoCallback /\ [][NextNoCallback]_vars

\* SpecReject: one caller calls restore_pvs, with or without a save file
\* that may be unreadable, on a set with any channels connected and a
\* record or nothing loaded.
InitReject ==
    \E conn \in SUBSET PvNames, rec \in {<<>>, <<RecPut>>} :
       StateWith(AllTrue, LiveEq, conn, rec)

NextReject ==
    \/ RestoreSteps("main", {RecPut}, BOOLEAN, BOOLEAN, {{}})
    \/ PutSteps
    \/ RestoreStartFails("main")

SpecReject == InitReject /\ [][NextReject]_vars

\* SpecNested: every channel connected and writable, RecPut loaded; one
\* caller calls restore_pvs and the completion callback may start the next
\* restore itself.
NextNested ==
    \/ RestoreSteps("main", {RecPut}, {FALSE}, BOOLEAN, {{}})
    \/ PutSteps
    \/ \E p \in PvNames : PutCompleteCallNested(p)

SpecNested == InitLive /\ [][NextNested]_vars

\* SpecChange: every channel connected and writable, RecPut loaded; one
\* caller calls restore_pvs and, between its calls, adds and removes
\* channels while the puts of the restore are in flight.
NextChange ==
    \/ RestoreSteps("main", {RecPut}, {FALSE}, {FALSE}, {{}})
    \/ PutSteps
    \/ \E lines \in SUBSET PvNames : AddPvs("main", lines)
    \/ \E lines \in SUBSET PvNames : RemovePvs("main", lines)

SpecChange == InitLive /\ [][NextChange]_vars

\* SpecBlocking: every channel connected and writable, RecPut loaded; one
\* caller calls restore_pvs_blocking.
NextBlocking ==
    \/ \E force \in BOOLEAN : RestorePvsBlocking("main", force)
    \/ RestoreStart("main", RecPut)
    \/ RestoreValidate("main")
    \/ RestoreLoop("main")
    \/ RestoreReturn("main")
    \/ CallerCompleteTest("main")
    \/ CallerCompleteIdle("main")
    \/ CallerCompleteCall("main")
    \/ CallerCompleteClear("main")
    \/ PutSteps
    \/ BlockingDone("main")
    \/ BlockingTimeout("main")

SpecBlocking == InitLive /\ [][NextBlocking]_vars

\* SpecRemove: one caller starts the compare stream and removes channels
\* one at a time while the transport delivers connection callbacks and value
\* notifications.
NextRemove ==
    \/ CnctSteps
    \/ NotifySteps
    \/ \E cb \in Listeners : StartContinuousCompare("main", cb, FALSE, RecNone)
    \/ \E p \in PvNames : RemovePvsPop("main", p)
    \/ RemovePvsDisconnect("main")

SpecRemove == Init /\ [][NextRemove]_vars

\* ---------------------------------------------------------------- claims
\* Every context has returned: no caller is inside restore_pvs, no put is
\* in flight and no put callback is running.
Quiescent ==
    /\ \A c \in Callers : th[c].pc = "idle"
    /\ \A p \in PvNames : tcb[p].pc = "idle" /\ putq[p] = <<>>

\* The step on which the completion callback registered by caller c is called.
Fires(c) == fired'[c] = fired[c] + 1

\* The step on which caller c leaves the validation of restore_pvs
\* (lines 353-372), accepted or rejected.
Validates(c) == th[c].pc = "validate" /\ th'[c].pc # "validate"

\* A step of caller c's loop over the channels (lines 373-379) that handles
\* the next channel.
Attempts(c) == th[c].pc = "loop" /\ th[c].idx <= NumPvs /\ th'[c] # th[c]

\* A restore_pvs call of caller c that returns at the busy test.
ReturnsAtOnce(c) ==
    th[c].pc = "idle" /\ th'[c].pc = "idle" /\ ncalls' = ncalls + 1
       /\ \A d \in Callers \ {c} : th'[d] = th[d]

\* The step on which a put is issued to channel p.
IssuesPut(p) == Len(putq'[p]) > Len(putq[p])

\* C1: the completion callback of an accepted restore is invoked exactly
\* once under every interleaving of the completion hooks: it is never
\* invoked twice, and once restore_pvs has returned ok and every hook has
\* returned it has been invoked (not zero times).
C1_CallbackExactlyOnce ==
    \A c \in Callers :
        /\ fired[c] <= 1
        /\ (Quiescent /\ th[c].ret = "ok") => fired[c] = 1

\* C2: when the completion callback of an accepted restore fires, the
\* mapping it receives has an entry for every channel of the set, and its
\* forced argument is the force flag of the call that registered it.
C2_CallbackSeesEveryChannel ==
    [][\A c \in Callers :
          Fires(c) => /\ DOMAIN dict(restored_pvs_list) = PvNames
                      /\ current_restore_forced = restore_callback.force]_vars

\* C3: a restore_pvs call made while a restore is running returns busy and
\* changes no coordinator or channel state; after it the running restore's
\* callback still fires no more than once, and with the force flag of the
\* call that started the restore.
C3_BusyLeavesRestoreAlone ==
    [][\A c \in Callers :
          /\ ReturnsAtOnce(c)
                => /\ th'[c].ret = "busy"
                   /\ UNCHANGED <<pvVars, coordVars>>
          /\ th[c].ret = "busy"
                => /\ fired'[c] <= 1
                   /\ Fires(c) => current_restore_forced = restore_callback.force
      ]_vars

\* Caller c holds the coordinator: it is between the start of its restore
\* (line 348) and the end of it (line 386), with channels left to attempt or
\* an outcome just handed in.
Running(c) ==
    \/ th[c].pc \in {"validate", "test", "done"}
    \/ th[c].pc = "loop" /\ th[c].idx <= NumPvs

\* C4: at most one restore is running at any time: of two restore_pvs calls
\* issued concurrently on an idle coordinator, only one is accepted.
C4_AtMostOneRunning ==
    \A c1, c2 \in Callers : c1 # c2 => ~(Running(c1) /\ Running(c2))

\* C5: restore_pv hands over exactly one status per call: access_err when
\* the channel is not connected or not writable, else no_value when nothing
\* is to be restored, else equal when the live value equals the desired one;
\* else it writes, and the status is ok when the transport applied the write
\* and access_err when the transport rejected it.
C5_RestorePvStatus ==
    [][/\ \A c \in Callers :
            (Attempts(c) /\ th'[c].pc = "test"
               /\ (th[c].selected = {} \/ th[c].idx \in th[c].selected))
            => LET p == th[c].idx
               IN restored_pvs_list' = Append(restored_pvs_list,
                    <<p, IF ~connected[p] \/ ~write_access[p] THEN "access_err"
                         ELSE IF value_to_restore[p] = None THEN "no_value"
                         ELSE "equal">>)
       /\ \A p \in PvNames :
            (tcb[p].pc = "idle" /\ tcb'[p].pc = "test")
            => restored_pvs_list' = Append(restored_pvs_list,
                    <<p, IF tcb'[p].applied THEN "ok" ELSE "access_err">>)
      ]_vars

\* The channels a restore with this selection attempts.
Participating(selected) == IF selected = {} THEN PvNames ELSE selected

\* Channel p is connected, writable and its live value, as a snapshot stores
\* it, is the desired value.
AlreadyEqual(p) ==
    /\ connected[p]
    /\ write_access[p]
    /\ value_to_restore[p] # None
    /\ Normalize(is_array[p], value[p]) = value_to_restore[p]

\* C6: a restore in which every participating channel is connected,
\* writable and already equal to its desired value issues no write, and
\* every such channel's outcome is equal.
C6_EqualValuesNotWritten ==
    [][\A c \in Callers :
          (Attempts(c)
             /\ \A q \in Participating(th[c].selected) : AlreadyEqual(q))
          => /\ \A p \in PvNames : ~IssuesPut(p)
             /\ th[c].idx \in Participating(th[c].selected)
                   => restored_pvs_list' =
                         Append(restored_pvs_list, <<th[c].idx, "equal">>)
      ]_vars

\* The restore of caller c has a selection, has gone through every channel,
\* and every selected channel has reported and its hook has returned.
SelectedReported(c) ==
    /\ th[c].pc = "loop"
    /\ th[c].idx > NumPvs
    /\ th[c].selected # {}
    /\ \A p \in PvNames : tcb[p].pc = "idle" /\ putq[p] = <<>>

\* C7: in a restore with a selection, a channel outside the selection gets
\* ok recorded at once and is never written to, and the restore is complete
\* (the coordinator idle again) once the selected channels have reported.
C7_UnselectedDoNotBlock ==
    [][\A c \in Callers :
          /\ (Attempts(c) /\ th[c].idx \notin Participating(th[c].selected))
             => /\ restored_pvs_list' =
                      Append(restored_pvs_list, <<th[c].idx, "ok">>)
                /\ ~IssuesPut(th[c].idx)
          /\ SelectedReported(c)' => ~restore_started'
      ]_vars

\* Some channel of sel has lost connection, as the latest connection
\* callback of each channel reported it.
SomeLost(sel) == \E p \in sel : cnct_lost[p]

\* C8: with desired values loaded, restore_pvs returns no_cnct exactly when
\* force is false and either the selection is non-empty and some selected
\* channel has lost connection, or the selection is empty and all_connected
\* is false; it then starts no per-channel restore and issues no write.  A
\* forced restore is never rejected with no_cnct, and a selection whose
\* channels are all connected is accepted whatever the other channels are.
C8_NoCnctExactly ==
    [][\A c \in Callers :
          (Validates(c) /\ restore_values_loaded)
          => LET force == th[c].force
                 sel == th[c].selected
                 rejected == th'[c].ret = "no_cnct"
             IN /\ rejected <=>
                      (~force /\ (   (sel # {} /\ SomeLost(sel))
                                  \/ (sel = {} /\ ~all_connected)))
                /\ rejected => /\ th'[c].pc = "idle"
                               /\ ~restore_started'
                               /\ restored_pvs_list' = restored_pvs_list
                               /\ putq' = putq
                /\ force => ~rejected
                /\ (sel # {} /\ ~SomeLost(sel)) => th'[c].pc = "loop"
      ]_vars

\* A restore without force has been refused because a channel of its
\* selection has lost connection while desired values are loaded.
C8_Witness ==
    /\ th["main"].ret = "no_cnct"
    /\ th["main"].pc = "idle"
    /\ restore_values_loaded
    /\ ~restore_started
    /\ \E p \in PvNames : cnct_lost[p]

\* The connection condition of the restore: a selection is given and all
\* its channels are connected, or none is given and all_connected is true.
ConnectionOk(sel) ==
    \/ sel # {} /\ \A p \in sel : ~cnct_lost[p]
    \/ sel = {} /\ all_connected

\* C9 as stated: a restore with desired values loaded is rejected with
\* no_cnct unless force is set and, in addition, the connection condition
\* holds.
C9_RejectedUnlessForceAndConnected ==
    [][\A c \in Callers :
          (Validates(c) /\ restore_values_loaded)
          => (th'[c].ret # "no_cnct"
                 => th[c].force /\ ConnectionOk(th[c].selected))]_vars

\* C9 amended: a restore with desired values loaded is rejected with no_cnct
\* unless force is set or the connection condition holds: either of the two
\* is enough for it to be accepted.
C9_RejectedUnlessForceOrConnected ==
    [][\A c \in Callers :
          (Validates(c) /\ restore_values_loaded)
          => /\ (th[c].force \/ ConnectionOk(th[c].selected))
                   => th'[c].pc = "loop" /\ th'[c].ret # "no_cnct"
             /\ ~(th[c].force \/ ConnectionOk(th[c].selected))
                   => th'[c].pc = "idle" /\ th'[c].ret = "no_cnct"]_vars

\* A restore accepted without force, and a forced one accepted although a
\* channel it attempts has lost connection.
C9_Witness ==
    /\ th["main"].pc = "loop"
    /\ restore_callback.caller = "main"
    /\ \/ ~th["main"].force
       \/ th["main"].force /\ ~ConnectionOk(th["main"].selected)

\* No channel of the set has a desired value.
NoDesiredValue == \A p \in PvNames : value_to_restore[p] = None

CallbacksReturned == \A p \in PvNames : cnct_pc[p] = "idle"

\* C11: whenever no connection callback is running (after construction,
\* add_pvs, remove_pvs, change_macros and each connection callback) and the
\* set holds a channel, all_connected is true if and only if every channel
\* of the set has cnct_lost false.
C11_AllConnectedIffNoneLost ==
    (CallbacksReturned /\ pvs # {})
        => (all_connected <=> \A p \in pvs : ~cnct_lost[p])

\* C12: a connection callback that reports a disconnection of a member
\* channel leaves all_connected false in that same step, and once the
\* connection callbacks have returned all_connected is never true while a
\* member channel has cnct_lost true, however the callbacks interleaved.
C12_NeverTrueWhileLost ==
    [][/\ \A p \in pvs : (cnct_pc[p] = "callback" /\ cnct_pc'[p] = "idle"
                            /\ cnct_lost[p]) => ~all_connected'
       /\ (CallbacksReturned' /\ all_connected') => \A p \in pvs' : ~cnct_lost'[p]
      ]_vars

\* A change_macros call whose macros differ from the current ones.
MacrosChange == macros'.map # macros.map

\* C13: change_macros with different macros leaves every channel whose raw
\* name holds no macro token in the set under the same name, with the same
\* desired value, captured value and connection state.
C13_PlainChannelsUntouched ==
    [][MacrosChange
        => \A p \in pvs :
              ~HasMacro(p)
                 => /\ p \in pvs'
                    /\ pvname'[p] = pvname[p]
                    /\ value_to_restore'[p] = value_to_restore[p]
                    /\ saved_value'[p] = saved_value[p]
                    /\ connected'[p] = connected[p]
                    /\ cnct_lost'[p] = cnct_lost[p]
                    /\ is_array'[p] = is_array[p]
      ]_vars

\* The old name of macro channel p is in the set no more, unless p resolves
\* to it again.
OldNameGone(p) ==
    Resolved(p, macros') # pvname[p] => \A q \in pvs' : pvname'[q] # pvname[p]

\* Macro channel p is in the set again as a new handle under its newly
\* resolved name, with the desired value it had.
ReAdded(p) ==
    /\ p \in pvs'
    /\ pvname'[p] = Resolved(p, macros')
    /\ ~connected'[p] /\ cnct_lost'[p]
    /\ value_to_restore'[p] = value_to_restore[p]

C15_SameMacrosNoOp ==
    [][(macros.none /\ macros' # macros /\ macros'.map = {})
        => UNCHANGED <<pvs, pvname, connected, cnct_lost, is_array,
                       value_to_restore, saved_value, callbacks,
                       compare_callback_id>>
      ]_vars

\* The transport holds exactly one callback for every channel of the set,
\* the one the handle knows as its compare subscription.
OneSubscriptionEach ==
    \A p \in pvs : callbacks[p] = {compare_callback_id[p]}

\* C16: when change_macros replaces channels while the compare stream is
\* running, the stream is running afterwards with the same listener and
\* every channel of the set has a compare subscription, whether or not a
\* record is loaded.
C16_StreamKeptAcrossMacros ==
    [][(MacrosChange /\ compare_state)
        => /\ compare_state'
           /\ compare_callback' = compare_callback
           /\ \A p \in pvs' : compare_callback_id'[p] \in callbacks'[p]
      ]_vars

\* C17: the comparison result of every compare event is absent when the
\* channel of the event has no desired value or has lost its connection.
C17_CompareAbsentWithoutDesired ==
    \A i \in 1..Len(emitted) :
        (emitted[i].pv_saved = None \/ ~emitted[i].pv_cnct_sts)
            => emitted[i].pv_compare = "None"

\* The events of a step that name channel p.
EventsFor(p) == {i \in 1..Len(emitted') : emitted'[i].pv_name = pvname[p]}

\* The event e is what start_continuous_compare owes listener cb for
\* channel p: live value, comparison and connected=true for a connected
\* channel, no value and connected=false for a disconnected one.
InitialEvent(e, cb, p) ==
    /\ e.to = cb
    /\ IF connected[p]
       THEN /\ e.pv_value = Normalize(is_array[p], value[p])
            /\ e.pv_compare = last_compare'[p]
            /\ e.pv_cnct_sts
       ELSE /\ e.pv_value = None
            /\ ~e.pv_cnct_sts

C19_ReloadKeepsOneSubscription ==
    [][(compare_state /\ OneSubscriptionEach)
        => /\ ((\E r \in StreamRecords : PreparePvsToRestore("main", r))
                  \/ ClearPvsToRestore("main"))
               => /\ compare_state'
                  /\ compare_callback' = compare_callback
                  /\ OneSubscriptionEach'
           /\ \A cb \in Listeners :
                 (\E r \in StreamRecords : StartContinuousCompare("main", cb, TRUE, r))
                    => /\ compare_state'
                       /\ compare_callback' = cb
                       /\ OneSubscriptionEach'
      ]_vars

\* C20: stop_continuous_compare on a stream never started changes nothing;
\* no value notification raises, and a notification calls a listener only
\* while that listener is registered, so that none is called after
\* stop_continuous_compare has returned.
C20_StopIsSafe ==
    [][/\ (StopContinuousCompare("main") /\ ~compare_state)
          => UNCHANGED <<callbacks, compare_callback_id, last_compare,
                         compare_state, compare_callback>>
       /\ \A p \in PvNames :
             /\ ~ntf'[p].raised
             /\ (ntf[p].pc = "call" /\ ntf'[p].pc # "call")
                   => compare_callback = ntf[p].to
      ]_vars

\* ------------------------------------------------------- claims C21..C30
\* A step in which the caller calls save_pvs, and one in which the call is
\* not rejected.
Saves == \E force \in BOOLEAN, kw \in {1, 2} : SavePvs("main", force, kw)
SavesAll == Saves /\ pvs_status'[1].status = "ok"

\* The lines of a file that stand for the channel with raw name n.
EntriesOf(lines, n) ==
    {i \in 1..Len(lines) : lines[i].kind \in {"entry", "bare"}
                           /\ lines[i].name = n}

\* C21: save_pv on a channel that is not connected, or connected without
\* read access, returns access_err and leaves the captured value absent, so
\* that the record written afterwards holds no value for the channel.
C21_NoAccessClears ==
    [][SavesAll =>
          \A p \in pvs : (~connected[p] \/ ~read_access[p]) =>
              /\ pvs_status'[1].pvs_status[p] = "access_err"
              /\ saved_value'[p] = None
              /\ \A i \in EntriesOf(save_file', pvname_raw(p)) :
                    save_file'[i].kind = "bare"
      ]_vars

\* C22: save_pv on a connected channel with read access captures the
\* normalised latest value and returns no_value exactly when the captured
\* value is absent, ok otherwise.
C22_NoValueIffAbsent ==
    [][SavesAll =>
          \A p \in pvs : (connected[p] /\ read_access[p]) =>
              /\ saved_value'[p] = Normalize(is_array[p], value[p])
              /\ pvs_status'[1].pvs_status[p] \in {"no_value", "ok"}
              /\ pvs_status'[1].pvs_status[p] = "no_value"
                    <=> saved_value'[p] = None
      ]_vars

\* C26: save_pvs that is not rejected (force set or all_connected true)
\* returns a status for every channel of the set and writes a record with
\* the header and exactly one line per channel under its raw name, a bare
\* name exactly when nothing was captured for it; a rejected save_pvs
\* returns no_cnct with an empty status map, captures nothing and writes
\* no file.
C26_SaveAllOrNothing ==
    [][\A force \in BOOLEAN, kw \in {1, 2} : SavePvs("main", force, kw) =>
          IF force \/ all_connected
          THEN /\ pvs_status'[1].status = "ok"
               /\ DOMAIN pvs_status'[1].pvs_status = pvs
               /\ \A p \in pvs : pvs_status'[1].pvs_status[p]
                                    \in {"access_err", "ok", "no_value"}
               /\ Len(save_file') = 1 + Cardinality(pvs)
               /\ save_file'[1].kind = "hash"
               /\ \A p \in pvs :
                     /\ Cardinality(EntriesOf(save_file', pvname_raw(p))) = 1
                     /\ \A i \in EntriesOf(save_file', pvname_raw(p)) :
                           save_file'[i].kind = "bare" <=> saved_value'[p] = None
          ELSE /\ pvs_status'[1] = [status |-> "no_cnct", pvs_status |-> EmptyDict]
               /\ UNCHANGED <<saved_value, save_file>>
      ]_vars

\* A save of a set not all connected was forced and wrote a bare name for
\* one channel and a value for another.
C26_Witness ==
    /\ ~all_connected
    /\ pvs_status # <<>>
    /\ pvs_status[1].status = "ok"
    /\ \E i, j \in 2..Len(save_file) :
          save_file[i].kind = "bare" /\ save_file[j].kind = "entry"

\* What reading a record written from the captured values must return.
Written(kw) ==
    [saved_pvs |-> [n \in {pvname_raw(p) : p \in pvs} |->
                      saved_value[CHOOSE p \in pvs : pvname_raw(p) = n]],
     meta_data |-> MetaData(kw, macros),
     err |-> <<>>]

LoadedFrom(rec, m) ==
    \A p \in pvs :
        LET entries == {k \in DOMAIN rec : Resolved(k, m) = pvname[p]}
        IN IF entries = {}
           THEN value_to_restore'[p] = None
           ELSE \E k \in entries : value_to_restore'[p] = rec[k]

\* C23: after desired values are loaded from a record, each channel's
\* desired value is the record's value for the entry whose macro-expanded
\* name equals the channel's resolved name, and absent for every channel the
\* record omits: no desired value of an earlier load survives.
C23_DesiredFromRecordOnly ==
    [][/\ \A r \in PartialRecords :
             PreparePvsToRestore("main", r) => LoadedFrom(r, macros)
       /\ PreparePvsToRestoreFromFile("main") =>
             LoadedFrom(ByLine(parse_from_save_file(save_file).saved_pvs),
                        AppliedMacros(MetaMacros(
                            parse_from_save_file(save_file).meta_data)))
      ]_vars

\* Desired values were loaded from a save file written under macros the
\* set no longer has: one channel has a desired value, another has none.
C23_Witness ==
    /\ restore_values_loaded
    /\ ~Truthy(macros)
    /\ save_file # <<>>
    /\ Len(parse_from_save_file(save_file).meta_data.d) = 2
    /\ value_to_restore =
          RestoreParameters(pvs, pvname, value_to_restore,
                            ByLine(parse_from_save_file(save_file).saved_pvs),
                            MetaMacros(parse_from_save_file(save_file).meta_data))
    /\ \E p, q \in pvs : value_to_restore[p] # None /\ value_to_restore[q] = None

\* C24: add_pvs coalesces duplicates.  The set holds one handle per
\* resolved name; add_pvs leaves every handle of the set with all of its
\* state, adds a handle only for the first line of the list that resolves
\* to a name the set does not hold, so that every resolved name of the list
\* is in the set afterwards, and adding the same list again changes nothing.
C24_AddPvsCoalesces ==
    [][/\ \A p, q \in pvs' : pvname'[p] = pvname'[q] => p = q
       /\ \A lines \in SUBSET PvNames : AddPvs("main", lines) =>
             /\ pvs \subseteq pvs'
             /\ \A p \in pvs :
                   /\ pvname'[p] = pvname[p]
                   /\ value_to_restore'[p] = value_to_restore[p]
                   /\ saved_value'[p] = saved_value[p]
                   /\ callbacks'[p] = callbacks[p]
                   /\ compare_callback_id'[p] = compare_callback_id[p]
                   /\ last_compare'[p] = last_compare[p]
                   /\ connected'[p] = connected[p]
                   /\ cnct_lost'[p] = cnct_lost[p]
                   /\ is_array'[p] = is_array[p]
             /\ \A l \in lines : \E q \in pvs' : pvname'[q] = Resolved(l, macros)
             /\ \A p \in pvs' \ pvs :
                   /\ p \in lines
                   /\ ~\E l \in lines : l < p /\ Resolved(l, macros) = Resolved(p, macros)
             /\ add_pvs(pvs', pvname', lines, macros)
                   = [pvs |-> pvs', pvname |-> pvname']
      ]_vars

\* A request line is not in the set because its resolved name is held by
\* the handle of an earlier line, which is connected and has a desired
\* value.
C24_Witness ==
    \E l \in PvNames \ pvs, q \in pvs :
        /\ Resolved(l, macros) = pvname[q]
        /\ q < l
        /\ connected[q]
        /\ value_to_restore[q] # None

\* C25: get_not_connected_pvs_names(selection) is, while no connection
\* callback is running, the set's channels that are not connected, of the
\* selection when one is given; whenever
\* restore_pvs returns no_cnct for a selection, the listing for that
\* selection is not empty and names every channel of it whose lost
\* connection caused the rejection.
C25_ListingNamesNotConnected ==
    [][/\ \A selected \in SUBSET pvs' :
             (\A p \in PvNames : cnct_pc'[p] = "idle") =>
                get_not_connected_pvs_names(selected)' =
                   {p \in pvs' : ~connected'[p]
                                 /\ (p \in selected \/ selected = {})}
       /\ \A c \in Callers :
             (Validates(c) /\ th'[c].ret = "no_cnct") =>
                /\ get_not_connected_pvs_names(th[c].selected)' # {}
                /\ {p \in Participating(th[c].selected) : cnct_lost[p]}
                      \subseteq get_not_connected_pvs_names(th[c].selected)'
      ]_vars

\* A sequence without its k-th element.
Without(seq, k) == SubSeq(seq, 1, k - 1) \o SubSeq(seq, k + 1, Len(seq))

\* Line i of the file is the last one that names n.
LastOf(lines, i, n) == \A j \in EntriesOf(lines, n) : j <= i

\* C28: parse_from_save_file does not abort on a malformed line.  An entry
\* whose value fails to decode adds exactly one error naming the entry and
\* records its name with an absent value; a header that fails to decode
\* adds one error and leaves the metadata empty; in both cases everything
\* else of the result is what it would be were the line well-formed.
C28_BadLinesIsolated ==
    [][ParseFromSaveFile =>
          \A i \in 1..Len(save_file) :
             LET line == save_file[i]
                 file == parsed'[1]
             IN /\ (line.kind = "entry" /\ json_loads(line.text) = Raised) =>
                      LET good == parse_from_save_file(
                                     [save_file EXCEPT ![i] =
                                         EntryLine(line.name, json_dumps(Scalar(0)))])
                      IN /\ DOMAIN file.saved_pvs = DOMAIN good.saved_pvs
                         /\ line.name \in DOMAIN file.saved_pvs
                         /\ LastOf(save_file, i, line.name)
                               => file.saved_pvs[line.name] = None
                         /\ \A n \in DOMAIN file.saved_pvs \ {line.name} :
                               file.saved_pvs[n] = good.saved_pvs[n]
                         /\ file.meta_data = good.meta_data
                         /\ \E k \in 1..Len(file.err) :
                               /\ file.err[k] = ValueError(line.name)
                               /\ Without(file.err, k) = good.err
                /\ (i = 1 /\ line.kind = "hash" /\ json_loads(line.text) = Raised) =>
                      LET good == parse_from_save_file(
                                     [save_file EXCEPT ![i] =
                                         HashLine(json_dumps(Dict(<<1>>)))])
                      IN /\ file.meta_data = Dict(<<>>)
                         /\ file.saved_pvs = good.saved_pvs
                         /\ \E k \in 1..Len(file.err) :
                               /\ file.err[k] = MetaError
                               /\ Without(file.err, k) = good.err
      ]_vars

\* A file with a header and an entry that fail to decode and an entry that
\* decodes has been read.
C28_Witness ==
    /\ parsed = <<parse_from_save_file(save_file)>>
    /\ parsed[1].err = <<MetaError, ValueError(pvname_raw(1))>>
    /\ parsed[1].meta_data = Dict(<<>>)
    /\ DOMAIN parsed[1].saved_pvs = {pvname_raw(1), pvname_raw(2)}
    /\ parsed[1].saved_pvs[pvname_raw(1)] = None
    /\ parsed[1].saved_pvs[pvname_raw(2)] = Array(<<0, 1>>)

\* The file with every "#" line after its first line left out.
NotHash(line) == line.kind # "hash"
NoComments(lines) ==
    IF lines # <<>> /\ lines[1].kind = "hash"
    THEN <<lines[1]>> \o SelectSeq(Tail(lines), NotHash)
    ELSE SelectSeq(lines, NotHash)

\* C29: only a "#" line at the very start of a save file is taken as
\* metadata.  A file whose first line is no "#" line gives the error 'No
\* meta data in the file' and empty metadata, and every "#" line after
\* line 1 is ignored: the result is that of the file without them.
C29_OnlyFirstLineIsHeader ==
    [][ParseFromSaveFile =>
          /\ parsed'[1] = parse_from_save_file(NoComments(save_file))
          /\ (save_file = <<>> \/ save_file[1].kind # "hash") =>
                /\ parsed'[1].meta_data = Dict(<<>>)
                /\ parsed'[1].err # <<>>
                /\ parsed'[1].err[1] = NoMetaError
      ]_vars

\* replace_metadata changes only the header line of a save file: the other
\* lines - those after the header the file had, all of them when it had
\* none - are kept in their order.
BodyOf(lines) ==
    IF lines # <<>> /\ lines[1].kind = "hash" THEN Tail(lines) ELSE lines

\* C30: replace_metadata changes only the metadata header line of a save
\* file: every other line, comments included, is kept verbatim and in
\* order, and reading the file afterwards gives the new metadata with the
\* same entries as before.
C30_OnlyHeaderReplaced ==
    [][\A metadata \in {Dict(<<2>>), Dict(<<2, 1>>)} :
          ReplaceMetadata(metadata) =>
             /\ save_file' = <<HashLine(json_dumps(metadata))>> \o BodyOf(save_file)
             /\ parse_from_save_file(save_file').meta_data = metadata
             /\ parse_from_save_file(save_file').saved_pvs
                   = parse_from_save_file(save_file).saved_pvs
      ]_vars

\* ------------------------------------------------------- claims C31..C40
\* Caller c's restore has just been accepted: the outcome list is reset and
\* its callback registered (lines 370-372).
Accepted(c) == th[c].pc = "loop" /\ th[c].idx = 1

\* C31: every accepted restore eventually returns the coordinator to Idle
\* and fires its completion callback, when every caller goes on running and
\* the transport delivers the completion of every write it accepted.
C31_AcceptedRestoreCompletes ==
    Accepted("main") ~> (~restore_started /\ fired["main"] >= 1)

\* No channel has more than one outcome in the list l.
OnePerChannel(l) ==
    \A i, j \in 1..Len(l) : i # j => l[i][1] # l[j][1]

\* C32: when the transport delivers the completion of one channel's write
\* more than once, at most one outcome per channel is recorded and the
\* completion callback fires only after every channel has reported.
C32_DuplicateCompletionsIgnored ==
    [][/\ OnePerChannel(restored_pvs_list')
       /\ Fires("main") => ListKeys(restored_pvs_list) = pvs]_vars

\* The step on which the connection callback of member channel p, called for
\* a lost connection, has updated cnct_lost and all_connected and goes on to
\* run_callbacks() (line 190).
ConnectionLost(p) ==
    p \in pvs /\ cnct_pc[p] # "idle" /\ cnct_pc'[p] = "idle" /\ cnct_lost[p]

\* The step on which the listener is called for channel p.
CallsListener(p) == ntf[p].pc = "call" /\ ntf'[p] # ntf[p]

\* C33: while the compare stream runs, a connection-lost callback of a
\* member channel runs exactly one compare callback for that channel, after
\* cnct_lost and all_connected have been updated, and the event it emits
\* carries connected = false and no comparison.
C33_OneEventPerConnectionLoss ==
    [][\A p \in PvNames :
          /\ ConnectionLost(p) /\ compare_state =>
                /\ ~all_connected'
                /\ ntf'[p].pc = "run"
                /\ Cardinality(ntf'[p].todo) = 1
          /\ CallsListener(p) /\ cnct_lost[p] =>
                /\ Len(emitted') = 1
                /\ ~emitted'[1].pv_cnct_sts
                /\ emitted'[1].pv_compare = "None"]_vars

\* C34: when a bulk reload of the desired values fails part-way while the
\* compare stream is active, the stream is resumed: the listener is still
\* registered and every channel is subscribed after the failed call.
C34_FailedReloadResumesStream ==
    [][\A r \in StreamRecords, bad \in PvNames :
          PreparePvsToRestoreFails("main", r, bad) /\ compare_state =>
             /\ compare_state'
             /\ compare_callback' = compare_callback
             /\ \A p \in pvs : callbacks'[p] # {}]_vars

\* C35: an accepted restore returns the coordinator to Idle once every
\* channel has reported, also when no completion callback was supplied and
\* when the set is empty: when the call has returned ok and every put has
\* completed, restore_started is false.
C35_AcceptedRestoreReturnsToIdle ==
    Quiescent /\ th["main"].ret = "ok" => ~restore_started

\* The step on which caller c's restore_pvs call ends without having
\* started a restore: rejected with no_data or no_cnct, or failing while the
\* save file is read.
EndsUnstarted(c) ==
    th[c].pc \in {"start", "validate"} /\ th'[c].pc = "idle"

\* C36: a restore_pvs call that ends without starting a restore leaves the
\* coordinator Idle with no callback registered.
C36_UnstartedRestoreLeavesIdle ==
    [][EndsUnstarted("main") =>
          ~restore_started' /\ restore_callback' = NoCallback]_vars

\* C37: a restore started from inside the completion callback of the
\* previous restore keeps its own callback registered: the outer hook's
\* clearing of restore_callback (line 388) does not drop it.
C37_NestedRestoreKeepsCallback ==
    [][\A p \in PvNames :
          tcb[p].pc = "clear" /\ tcb'[p].pc = "idle"
             /\ restore_started /\ restore_callback.caller = "aux" =>
                restore_callback' = restore_callback]_vars

\* C38: when channels are added or removed while a restore is running, the
\* restore still completes exactly once: when the call has returned ok and
\* every put has completed, its callback has fired once and the coordinator
\* is Idle.
C38_SetChangeKeepsCompletion ==
    Quiescent /\ th["main"].ret = "ok" =>
       fired["main"] = 1 /\ ~restore_started

\* The step on which caller c's restore_pvs_blocking call returns ok.
BlockingReturnsOk(c) == th[c].pc = "wait" /\ th'[c].ret = "ok"

\* C39: restore_pvs_blocking returns ok only after the restore started by
\* that same call has completed: every put it issued has completed and the
\* coordinator is Idle, whatever an earlier timed-out restore does later.
C39_BlockingOkMeansOwnRestoreDone ==
    [][BlockingReturnsOk("main") =>
          ~restore_started /\ \A p \in PvNames : putq[p] = <<>>]_vars

\* The step on which run_callbacks calls continuous_compare for channel p.
RunsCompare(p) ==
    ntf[p].pc = "run" /\ ntf'[p] # ntf[p]
       /\ (CHOOSE j \in ntf[p].todo : \A k \in ntf[p].todo : j <= k) \in callbacks[p]

\* C40: a value-change or connection-loss notification delivered for a
\* channel name that is no longer in the set emits no event, changes no
\* state and raises no error.
C40_NotificationForRemovedChannel ==
    [][\A p \in PvNames :
          RunsCompare(p) /\ p \notin pvs =>
             /\ ~ntf'[p].raised
             /\ ntf'[p].pc # "load"
             /\ last_compare' = last_compare
             /\ emitted' = <<>>]_vars

====
